---- MODULE Spec2Model ----
(***************************************************************************)
(* State-machine model of the immich-sync synchronisation engine:          *)
(*   - sync_assets (src/app/sync.py): listing, indexing, task planning and *)
(*     the semaphore-bounded link-or-copy tasks;                           *)
(*   - SyncService.run_sync_group (src/app/sync_service.py): the progress  *)
(*     record kept while a group is synchronised, and get_progress;        *)
(*   - ImmichClient (src/app/immich_client.py): the endpoint variants of   *)
(*     download, upload, add-to-album and bulk check;                      *)
(*   - load_config (src/app/sync.py) and the exit status of main           *)
(*     (src/main.py).                                                      *)
(***************************************************************************)
EXTENDS Integers, Sequences, FiniteSets, TLC

(***************************************************************************)
(* Bounds of the model.                                                    *)
(***************************************************************************)
MaxWorkers == 2
MaxFaults == 1
MaxAlbum == 2

(***************************************************************************)
(* Small helpers.                                                          *)
(***************************************************************************)
Max(a, b) == IF a >= b THEN a ELSE b

EmptyMap == [k \in {} |-> k]

\* Python's `x or y` on strings: the empty string (or None) is falsy.
OrElse(x, y) == IF x # "" THEN x ELSE y

(***************************************************************************)
(* Input universe: checksums (in lexicographic order), assets, albums,     *)
(* server configurations.                                                  *)
(***************************************************************************)
ChecksumOrder == <<"c1", "c2">>

\* An asset as normalised by ImmichClient.list_album_assets.  A missing or
\* None string field is "", a size that is not an int has sizeKnown = FALSE.
MkAsset(id, checksum, filename, sizeKnown, size) ==
    [id |-> id, checksum |-> checksum, originalFileName |-> filename,
     sizeKnown |-> sizeKnown, size |-> size]

AssetBig == MkAsset("x1", "c1", "p.jpg", TRUE, 5)
AssetNoSize == MkAsset("x2", "c1", "", FALSE, 0)
AssetSmall == MkAsset("x3", "c2", "q.jpg", TRUE, 3)
AssetNoChecksum == MkAsset("x0", "", "n.jpg", TRUE, 3)

\* The album listings a server may answer with.
Albums ==
    {l \in
        { <<>>,
          <<AssetBig>>,
          <<AssetNoSize, AssetBig>>,
          <<AssetNoChecksum, AssetSmall>>,
          <<AssetSmall, AssetNoSize>>,
          <<AssetBig, AssetNoChecksum, AssetSmall>> } : Len(l) <= MaxAlbum}

\* What the remote album with a given album_id may hold.
RemoteAlbums(album_id) ==
    IF album_id = "album-a" THEN Albums
    ELSE IF album_id = "album-b" THEN {l \in Albums : l # <<AssetSmall, AssetNoSize>>}
    ELSE {<<>>, <<AssetNoSize, AssetBig>>}

MkServer(name, album_id, hasLimit, limit) ==
    [name |-> name, album_id |-> album_id, hasLimit |-> hasLimit,
     size_limit_bytes |-> limit]

\* Configurations load_config returns: at least two servers, distinct names,
\* a limit is absent or positive.
Configs ==
    { <<MkServer("A", "album-a", FALSE, 0), MkServer("B", "album-a", TRUE, 4)>>,
      <<MkServer("A", "album-a", TRUE, 3), MkServer("B", "album-b", FALSE, 0),
        MkServer("C", "album-c", TRUE, 4)>> }

\* SyncConfig values a programmatic caller can build that load_config would
\* not return: a single server, two servers under one name.
InvalidConfigs ==
    { <<MkServer("A", "album-a", FALSE, 0)>>,
      <<MkServer("A", "album-a", FALSE, 0), MkServer("A", "album-b", TRUE, 4)>> }

ServerNames(cfg) == {cfg[i].name : i \in 1..Len(cfg)}

ServerByName(cfg, n) == cfg[CHOOSE i \in 1..Len(cfg) : cfg[i].name = n]

(***************************************************************************)
(* index_assets / compute_missing / _select_source / task construction.    *)
(***************************************************************************)
\* Variant: a later asset with the same checksum replaces the earlier one.
Setdefault_Overwrite(acc, k, v) == (k :> v) @@ acc

\* dict.setdefault(k, v): the value already stored under k is kept.
Setdefault(acc, k, v) == IF k \in DOMAIN acc THEN acc ELSE acc @@ (k :> v)

RECURSIVE PerChecksum(_, _)
PerChecksum(assets, acc) ==
    IF assets = <<>> THEN acc
    ELSE LET a == Head(assets) IN
         IF a.checksum = "" THEN PerChecksum(Tail(assets), acc)
         ELSE PerChecksum(Tail(assets), Setdefault(acc, a.checksum, a))

RECURSIVE CountChecksumless(_)
CountChecksumless(assets) ==
    IF assets = <<>> THEN 0
    ELSE (IF Head(assets).checksum = "" THEN 1 ELSE 0) + CountChecksumless(Tail(assets))

\* index_assets returns (index, checksumless_counts).
index_assets(assets_by_server) ==
    [index |-> [n \in DOMAIN assets_by_server |-> PerChecksum(assets_by_server[n], EmptyMap)],
     checksumless |-> [n \in DOMAIN assets_by_server |-> CountChecksumless(assets_by_server[n])]]

UnionOf(idx) == UNION {DOMAIN idx[n] : n \in DOMAIN idx}

\* The orders in which iterating a set of strings may yield its members
\* (the order follows the hashes of the strings, which differ from one
\* interpreter process to the next).
IterationOrders(S) ==
    {o \in [1..Cardinality(S) -> S] : \A i, j \in 1..Cardinality(S) : o[i] = o[j] => i = j}

\* Variant: the own checksums are not filtered out.
compute_missing_Unfiltered(idx, order) == [n \in DOMAIN idx |-> order]

\* compute_missing: per server, the checksums of the union it lacks, listed
\* in the order in which the set all_checksums is iterated.
compute_missing(idx, order) ==
    [n \in DOMAIN idx |-> SelectSeq(order, LAMBDA c : c \notin DOMAIN idx[n])]

\* sorted(set): the members of S in lexicographic order.
Sorted(S) == SelectSeq(ChecksumOrder, LAMBDA c : c \in S)

\* Variant: an indexed asset without a known size does not count as held.
HasChecksum_SizedOnly(idx, n, c) ==
    n \in DOMAIN idx /\ c \in DOMAIN idx[n] /\ idx[n][c].sizeKnown

HasChecksum(idx, n, c) == n \in DOMAIN idx /\ c \in DOMAIN idx[n]

\* Variant: the last server in declaration order that holds c is taken.
_select_source_Last(servers, idx, c) ==
    LET hits == {i \in 1..Len(servers) : HasChecksum(idx, servers[i].name, c)} IN
    IF hits = {} THEN [found |-> FALSE, server |-> "", asset |-> AssetNoChecksum]
    ELSE LET i == CHOOSE j \in hits : \A k \in hits : j >= k IN
         [found |-> TRUE, server |-> servers[i].name,
          asset |-> idx[servers[i].name][c]]

\* _select_source: first server in declaration order whose index holds c.
_select_source(servers, idx, c) ==
    LET hits == {i \in 1..Len(servers) : HasChecksum(idx, servers[i].name, c)} IN
    IF hits = {} THEN [found |-> FALSE, server |-> "", asset |-> AssetNoChecksum]
    ELSE LET i == CHOOSE j \in hits : \A k \in hits : j <= k IN
         [found |-> TRUE, server |-> servers[i].name,
          asset |-> idx[servers[i].name][c]]

\* One task per server that is neither the source nor a holder (lines
\* 225-230): the tuple (checksum, source_config, source_asset, target).
RECURSIVE TargetsFor(_, _, _, _, _)
TargetsFor(servers, idx, c, sel, i) ==
    IF i > Len(servers) THEN <<>>
    ELSE LET t == servers[i].name IN
         IF t = sel.server \/ HasChecksum(idx, t, c)
         THEN TargetsFor(servers, idx, c, sel, i + 1)
         ELSE <<[checksum |-> c, source |-> sel.server, source_asset |-> sel.asset,
                 target |-> t]>> \o TargetsFor(servers, idx, c, sel, i + 1)

\* The task list and the "No source available" errors of sync_assets.
RECURSIVE BuildTasks(_, _, _)
BuildTasks(servers, idx, cs) ==
    IF cs = <<>> THEN [tasks |-> <<>>, errors |-> <<>>]
    ELSE LET c == Head(cs)
             sel == _select_source(servers, idx, c)
             rest == BuildTasks(servers, idx, Tail(cs))
         IN IF ~sel.found
            THEN [tasks |-> rest.tasks,
                  errors |-> <<[kind |-> "No source available", checksum |-> c,
                                source |-> "", target |-> ""]>> \o rest.errors]
            ELSE [tasks |-> TargetsFor(servers, idx, c, sel, 1) \o rest.tasks,
                  errors |-> rest.errors]

(***************************************************************************)
(* Remote answers: bulk-check bodies and upload bodies.                    *)
(***************************************************************************)
\* One element of a results/assets list.  isDict = FALSE is a non-object
\* element such as the string "ok".
MkEntry(isDict, action, status, assetId, existingId, id) ==
    [isDict |-> isDict, action |-> action, status |-> status,
     assetId |-> assetId, existingId |-> existingId, id |-> id]

EntryAccept == MkEntry(TRUE, "accept", "", "e0", "", "")
EntryReject == MkEntry(TRUE, "reject", "", "e1", "e9", "e9")
EntryDupStatus == MkEntry(TRUE, "", "duplicate", "", "e1", "")
EntryConflict == MkEntry(TRUE, "accept", "duplicate", "", "", "e3")

\* The value of the "results" or "assets" key of a body: a list, or some
\* other truthy value (isList = FALSE).  An absent key, None and [] are the
\* empty list.
ListOf(items) == [isList |-> TRUE, items |-> items]

Falsy(v) == v.isList /\ v.items = <<>>

\* kind: "raise" = check_bulk_upload raised, "notdict" = the parsed body is
\* not an object, "dict" = an object with the given results/assets values.
MkCheck(kind, results, assets) == [kind |-> kind, results |-> results, assets |-> assets]

BulkResponses ==
    { MkCheck("raise", ListOf(<<>>), ListOf(<<>>)),
      MkCheck("notdict", ListOf(<<>>), ListOf(<<>>)),
      MkCheck("dict", ListOf(<<>>), ListOf(<<>>)),
      MkCheck("dict", [isList |-> FALSE, items |-> <<>>], ListOf(<<EntryReject>>)),
      MkCheck("dict", ListOf(<<EntryReject>>), ListOf(<<>>)),
      MkCheck("dict", ListOf(<<MkEntry(FALSE, "", "", "", "", ""), EntryAccept, EntryDupStatus, MkEntry(TRUE, "reject", "", "e2", "", "")>>), ListOf(<<>>)),
      MkCheck("dict", ListOf(<<MkEntry(TRUE, "reject", "", "", "", ""), EntryReject>>), ListOf(<<>>)),
      MkCheck("dict", ListOf(<<EntryConflict, EntryReject>>), ListOf(<<>>)),
      MkCheck("dict", ListOf(<<EntryConflict>>), ListOf(<<>>)),
      MkCheck("dict", ListOf(<<>>), ListOf(<<EntryDupStatus>>)),
      MkCheck("dict", ListOf(<<EntryAccept>>), ListOf(<<EntryReject>>)) }

\* check.get("results") or check.get("assets") or []
CandidatesOf(check) ==
    IF ~Falsy(check.results) THEN check.results
    ELSE IF ~Falsy(check.assets) THEN check.assets
    ELSE ListOf(<<>>)

\* Variant: the id fields are consulted in the reverse order.
EntryId_IdFirst(entry) == OrElse(entry.id, OrElse(entry.existingId, entry.assetId))

\* entry.get("assetId") or entry.get("existingId") or entry.get("id")
EntryId(entry) == OrElse(entry.assetId, OrElse(entry.existingId, entry.id))

\* The loop of _find_existing_asset over the candidate list; "" is None.
RECURSIVE FirstExisting(_)
FirstExisting(items) ==
    IF items = <<>> THEN ""
    ELSE LET entry == Head(items) IN
         IF ~entry.isDict THEN FirstExisting(Tail(items))
         ELSE IF OrElse(entry.action, entry.status) \notin {"reject", "duplicate"}
              THEN FirstExisting(Tail(items))
         ELSE IF EntryId(entry) # "" THEN EntryId(entry)
         ELSE FirstExisting(Tail(items))

\* _find_existing_asset: raised = an exception leaves the function
\* (check.get on a body that is not an object); id = "" is None.
_find_existing_asset(check) ==
    IF check.kind = "raise" THEN [raised |-> FALSE, id |-> ""]
    ELSE IF check.kind = "notdict" THEN [raised |-> TRUE, id |-> ""]
    ELSE IF ~CandidatesOf(check).isList THEN [raised |-> FALSE, id |-> ""]
    ELSE [raised |-> FALSE, id |-> FirstExisting(CandidatesOf(check).items)]

\* Bodies an upload may answer with.
UploadResponses ==
    { [id |-> "n1", assetId |-> "n2"],
      [id |-> "", assetId |-> "n1"],
      [id |-> "", assetId |-> ""] }

\* What ImmichClient.download_asset returns: the httpx.Response of the GET,
\* not its bytes.
DownloadResults == {[kind |-> "response", length |-> n] : n \in {3, 5}}

\* len(x): the length of a bytes object; an object without __len__, such as
\* a Response, raises TypeError.
PyLen(x) ==
    IF x.kind = "bytes" THEN [ok |-> TRUE, value |-> x.length]
    ELSE [ok |-> FALSE, value |-> 0]

\* filename = source_asset.get("originalFileName") or f"asset_{checksum}"
UploadFilename(asset, c) == OrElse(asset.originalFileName, "asset_" \o c)

(***************************************************************************)
(* State of one sync_assets run.                                           *)
(***************************************************************************)
VARIABLES
    config,      \* the SyncConfig: sequence of servers in declaration order
    dry_run,     \* the dry_run argument
    phase,       \* "listing", "running", "returned", "raised"
    cursor,      \* position in config of the server being listed
    assets,      \* server name -> listed assets
    index,       \* server name -> (checksum -> asset)
    summary,     \* the SyncSummary under construction
    tasks,       \* the task list
    tstate,      \* per task: pc, outcome, remote calls issued, ...
    semValue,    \* free permits of the semaphore
    semSize,     \* max(1, int(workers))
    clients,     \* the open clients, each named by the position of its server
    cancelled,   \* the caller cancelled the run
    faults,      \* failed task-level remote calls so far
    exit_code    \* what main returned to sys.exit, -1 while it has not

syncVars == <<config, dry_run, phase, cursor, assets, index, summary, tasks,
              tstate, semValue, semSize, clients, cancelled, faults, exit_code>>

\* State of one run_sync_group run.
VARIABLES
    instances,        \* the instances of the group
    instance_assets,  \* instance id -> listed assets
    progress,         \* what get_progress returns for the group
    sPc,              \* "fetch", "loop", "copy", "bump", "ended"
    sTarget,          \* position in instances of the current target
    sTodo,            \* checksums of the current target not yet handled
    sCur,             \* checksum being copied
    crashed,          \* an exception left run_sync_group
    snapshot,         \* the dict a caller of get_progress holds
    sClients          \* the ImmichClients of the run that are open

svcVars == <<instances, instance_assets, progress, sPc, sTarget, sTodo, sCur, crashed,
             snapshot, sClients>>

\* State of one operation of ImmichClient.
VARIABLES
    hOp,      \* "download", "upload", "add", "check"; "none" before the call
    hArg,     \* the asset id or album id of the call
    hReqs,    \* the requests sent so far, in order
    hResps,   \* the responses received so far, in order
    hPc,      \* "idle", "waiting", "returned", "raised"
    hResult   \* what the operation returned

httpVars == <<hOp, hArg, hReqs, hResps, hPc, hResult>>

\* State of one load_config call.
VARIABLES
    raw,      \* the configuration file
    loaded    \* the outcome of load_config

loadVars == <<raw, loaded>>

\* State of a caller of compute_missing.
VARIABLES
    mAssets,  \* the listings the index is built from
    mCalls    \* what the calls of compute_missing returned, in call order

missingVars == <<mAssets, mCalls>>

\* State of one copy's upload preparation.
VARIABLES
    uSource,    \* name of the source server
    uChecksum,  \* checksum of the task
    uAsset,     \* the source asset as listed
    uUpload     \* the filename and metadata handed to upload_asset

metaVars == <<uSource, uChecksum, uAsset, uUpload>>

\* State of a second run of run_sync_group for the same group, started
\* while the first may still be active.  Both runs work on the one record
\* SyncService._progress[group_id].
VARIABLES
    oPc,      \* "none" (never started), "fetch", "loop", "copy", "bump", "ended"
    oAssets,  \* instance id -> assets as the second run listed them
    oTarget,  \* position in instances of its current target
    oTodo,    \* checksums of its current target not yet handled
    oCur      \* checksum it is copying

overlapVars == <<oPc, oAssets, oTarget, oTodo, oCur>>

NoSummary ==
    [total_checksums |-> 0, copied |-> 0, linked |-> 0, errors |-> <<>>,
     checksumless_assets |-> EmptyMap, oversized |-> EmptyMap, per_server |-> EmptyMap]

\* The clients dict of sync_assets: one ImmichClient is built per server
\* and stored under the server's name, a later one replacing an earlier one
\* of the same name.
CreatedClients(cfg) == 1..Len(cfg)

HeldClients(cfg) ==
    {i \in 1..Len(cfg) : \A j \in 1..Len(cfg) : cfg[j].name = cfg[i].name => j <= i}

\* finally: aclose() on every value of the clients dict.
CloseClients(cfg, open) == open \ HeldClients(cfg)

\* main has parsed its arguments; load_config either returned a config, with
\* which sync_assets is entered, or raised ValueError (phase "rejected").
\* A programmatic caller enters sync_assets with any SyncConfig.
SyncInit ==
    /\ dry_run \in BOOLEAN
    /\ \/ /\ config \in Configs \cup InvalidConfigs
          /\ phase = "listing"
       \/ /\ config = <<>>
          /\ phase = "rejected"
    /\ exit_code = -1
    /\ cursor = 1
    /\ assets = EmptyMap
    /\ index = EmptyMap
    /\ summary = NoSummary
    /\ tasks = <<>>
    /\ tstate = <<>>
    /\ semValue = 0
    /\ semSize = 0
    /\ clients = CreatedClients(config)
    /\ cancelled = FALSE
    /\ faults = 0

NoCheck == MkCheck("none", ListOf(<<>>), ListOf(<<>>))

\* pc: the await the task is suspended at; calls: the remote calls the task
\* has issued so far (kept while it runs); check / upload: the answer the
\* task is acting on; failed: the stages ("lookup" = check_bulk_upload,
\* "transfer" = any other call or body, "length" = len(content), "noid" =
\* an upload body without an id) in which the task failed.
NewTask == [pc |-> "pending", outcome |-> "none", calls |-> <<>>, check |-> NoCheck,
            upload |-> [id |-> "", assetId |-> ""], failed |-> {}]

MkStats(initial, missing) ==
    [initial_assets |-> initial, missing_before |-> missing, remaining |-> missing,
     copied |-> 0, linked |-> 0, oversized |-> 0]

\* The summary built by sync_assets after indexing (lines 201-230).
PlanSummary(cfg, idx, missing, checksumless, planErrors) ==
    [total_checksums |-> Len(Sorted(UnionOf(idx))),
     copied |-> 0, linked |-> 0, errors |-> planErrors,
     checksumless_assets |-> checksumless,
     oversized |-> [n \in ServerNames(cfg) |-> <<>>],
     per_server |-> [n \in ServerNames(cfg) |->
                        IF n \in DOMAIN idx
                        THEN MkStats(Cardinality(DOMAIN idx[n]), Len(missing[n]))
                        ELSE MkStats(0, 0)]]

\* A listing answer arrives.  After the last one the run indexes, plans the
\* tasks, creates the semaphore and hands the tasks to gather.
ListDone ==
    /\ phase = "listing"
    /\ \E album \in RemoteAlbums(config[cursor].album_id) :
         LET name == config[cursor].name
             listed == (name :> album) @@ assets
         IN /\ assets' = listed
            /\ IF cursor < Len(config)
               THEN /\ cursor' = cursor + 1
                    /\ UNCHANGED <<phase, index, summary, tasks, tstate, semValue, semSize>>
               ELSE \E workers \in 0..MaxWorkers :
                    \E order \in IterationOrders(UnionOf(index_assets(listed).index)) :
                    LET ix == index_assets(listed)
                        missing == compute_missing(ix.index, order)
                        plan == BuildTasks(config, ix.index, Sorted(UnionOf(ix.index)))
                    IN /\ index' = ix.index
                       /\ summary' = PlanSummary(config, ix.index, missing, ix.checksumless,
                                                 plan.errors)
                       /\ tasks' = plan.tasks
                       /\ tstate' = [i \in 1..Len(plan.tasks) |-> NewTask]
                       /\ semSize' = Max(1, workers)
                       /\ semValue' = Max(1, workers)
                       /\ phase' = "running"
                       /\ UNCHANGED cursor
    /\ UNCHANGED <<exit_code, config, dry_run, clients, cancelled, faults>>
    /\ UNCHANGED <<svcVars, httpVars, loadVars, missingVars, metaVars, overlapVars>>

\* Variant: a server whose listing fails is left out and the run goes on
\* with the servers that answer.
ListFail_SkipServer ==
    /\ phase = "listing"
    /\ cursor < Len(config)
    /\ cursor' = cursor + 1
    /\ UNCHANGED <<exit_code, config, dry_run, phase, assets, index, summary, tasks, tstate,
                   semValue, semSize, clients, cancelled, faults>>
    /\ UNCHANGED <<svcVars, httpVars, loadVars, missingVars, metaVars, overlapVars>>

\* list_album_assets raises: the exception leaves sync_assets through the
\* finally that closes the clients.
ListFail ==
    /\ phase = "listing"
    /\ phase' = "raised"
    /\ clients' = CloseClients(config, clients)
    /\ UNCHANGED <<exit_code, config, dry_run, cursor, assets, index, summary, tasks, tstate,
                   semValue, semSize, cancelled, faults>>
    /\ UNCHANGED <<svcVars, httpVars, loadVars, missingVars, metaVars, overlapVars>>

(***************************************************************************)
(* process_task: one action per resumption of the coroutine.               *)
(***************************************************************************)
TaskIds == 1..Len(tasks)

Call(op, server, arg) == [op |-> op, server |-> server, arg |-> arg]

\* Tasks holding a permit of the semaphore.
InFlight == {i \in TaskIds : tstate[i].pc \in {"check", "link", "download", "upload", "add"}}

\* Variant: the completion is not written to the index.
RegisterIndex_Skip(idx, target, c, asset) == idx

\* _register_completion
RegisterIndex(idx, target, c, asset) ==
    IF target \in DOMAIN idx
    THEN [idx EXCEPT ![target] = (c :> asset) @@ idx[target]]
    ELSE (target :> (c :> asset)) @@ idx

RegisterStats(sm, target) ==
    IF target \in DOMAIN sm.per_server /\ sm.per_server[target].remaining > 0
    THEN [sm EXCEPT !.per_server[target].remaining = Max(0, @ - 1)]
    ELSE sm

\* Outcome -> counters of process_task (lines 256-284).
CountLinked(sm, target) ==
    [sm EXCEPT !.linked = @ + 1, !.per_server[target].linked = @ + 1]

CountCopied(sm, target) ==
    [sm EXCEPT !.copied = @ + 1, !.per_server[target].copied = @ + 1]

\* Variant: a dry-run task is registered without being counted.
CountDryRun_Uncounted(sm, target) == sm

\* The dry-run branch (lines 243-246).
CountDryRun(sm, target) == [sm EXCEPT !.copied = @ + 1]

OversizeEntry(t) ==
    [checksum |-> t.checksum, filename |-> t.source_asset.originalFileName,
     sizeKnown |-> t.source_asset.sizeKnown, size |-> t.source_asset.size]

\* Variant: the skipped asset is listed without being counted.
CountOversize_Uncounted(sm, t) ==
    [sm EXCEPT !.oversized[t.target] = Append(@, OversizeEntry(t))]

\* except OversizeError (lines 256-270)
CountOversize(sm, t) ==
    [sm EXCEPT !.per_server[t.target].oversized = @ + 1,
               !.oversized[t.target] = Append(@, OversizeEntry(t))]

\* f"Failed to copy {checksum} from {source} to {target}: {exc}"; the text of
\* the exception is not modelled.
FailureMessage(t) ==
    [kind |-> "Failed to copy", checksum |-> t.checksum, source |-> t.source,
     target |-> t.target]

\* Variant: the handler logs the failure without appending it.
RecordError_Drop(sm, t) == sm

\* except Exception (lines 271-275)
RecordError(sm, t) == [sm EXCEPT !.errors = Append(@, FailureMessage(t))]

\* Variant: a size equal to the limit is refused as well.
GateA_AtLeast(t) ==
    LET tgt == ServerByName(config, t.target) IN
    tgt.hasLimit /\ t.source_asset.sizeKnown /\ t.source_asset.size >= tgt.size_limit_bytes

\* Size gate A (line 338) and size gate B (line 350).
GateA(t) ==
    LET tgt == ServerByName(config, t.target) IN
    tgt.hasLimit /\ t.source_asset.sizeKnown /\ t.source_asset.size > tgt.size_limit_bytes

\* The operands of gate B left of len(content): the target has a limit and
\* the size is not an int.
GateBReached(t) ==
    LET tgt == ServerByName(config, t.target) IN
    tgt.hasLimit /\ ~t.source_asset.sizeKnown

GateB(t, len) ==
    LET tgt == ServerByName(config, t.target) IN
    tgt.hasLimit /\ ~t.source_asset.sizeKnown /\ len > tgt.size_limit_bytes

\* Variant: tasks are started without waiting for a permit.
CanAcquire_Always == TRUE

\* Variant: the permit is not given back when the task leaves.
Release_Forget(v) == v

\* async with semaphore: a task enters while a permit is free, takes the
\* permit and gives it back when it leaves the block.
CanAcquire == semValue > 0

Acquire(v) == v - 1

Release(v) == v + 1

\* Waiters are served in submission order.
NextPending(i) ==
    /\ tstate[i].pc = "pending"
    /\ \A j \in TaskIds : j < i => tstate[j].pc # "pending"

Finish(i, outcome) ==
    [tstate EXCEPT ![i].pc = "done", ![i].outcome = outcome, ![i].calls = <<>>,
                   ![i].check = NoCheck, ![i].upload = [id |-> "", assetId |-> ""]]

\* The task enters `async with semaphore` and runs to its first await.
Start(i) ==
    /\ phase = "running"
    /\ NextPending(i)
    /\ CanAcquire
    /\ LET t == tasks[i] IN
       IF dry_run
       THEN /\ summary' = RegisterStats(CountDryRun(summary, t.target), t.target)
            /\ index' = RegisterIndex(index, t.target, t.checksum, t.source_asset)
            /\ tstate' = Finish(i, "copied")
            /\ UNCHANGED semValue
       ELSE IF GateA(t)
       THEN /\ summary' = CountOversize(summary, t)
            /\ tstate' = Finish(i, "oversize")
            /\ UNCHANGED <<index, semValue>>
       ELSE /\ tstate' = [tstate EXCEPT ![i].pc = "check",
                                        ![i].calls = <<Call("check", t.target, t.checksum)>>]
            /\ semValue' = Acquire(semValue)
            /\ UNCHANGED <<index, summary>>
    /\ UNCHANGED <<exit_code, config, dry_run, phase, cursor, assets, tasks, semSize, clients,
                   cancelled, faults>>
    /\ UNCHANGED <<svcVars, httpVars, loadVars, missingVars, metaVars, overlapVars>>

\* A response is a failure of the remote call or of its body.
IsFault(check) == check.kind \in {"raise", "notdict"}

\* check_bulk_upload answers; _find_existing_asset decides link or copy.
CheckDone(i) ==
    /\ phase = "running"
    /\ tstate[i].pc = "check"
    /\ \E check \in BulkResponses :
         LET t == tasks[i]
             found == _find_existing_asset(check)
         IN /\ IsFault(check) => faults < MaxFaults
            /\ faults' = IF IsFault(check) THEN faults + 1 ELSE faults
            /\ IF found.raised
               THEN /\ summary' = RecordError(summary, t)
                    /\ tstate' = [Finish(i, "error") EXCEPT ![i].failed = @ \cup {"transfer"}]
                    /\ semValue' = Release(semValue)
               ELSE IF found.id # ""
               THEN /\ tstate' = [tstate EXCEPT
                                     ![i].pc = "link",
                                     ![i].check = check,
                                     ![i].calls = Append(@, Call("add", t.target, found.id))]
                    /\ UNCHANGED <<summary, semValue>>
               ELSE /\ tstate' = [tstate EXCEPT
                                     ![i].pc = "download",
                                     ![i].check = check,
                                     ![i].failed = IF check.kind = "raise" THEN @ \cup {"lookup"} ELSE @,
                                     ![i].calls = Append(@, Call("download", t.source, t.source_asset.id))]
                    /\ UNCHANGED <<summary, semValue>>
    /\ UNCHANGED <<exit_code, config, dry_run, phase, cursor, assets, index, tasks, semSize,
                   clients, cancelled>>
    /\ UNCHANGED <<svcVars, httpVars, loadVars, missingVars, metaVars, overlapVars>>

\* Variant: a failed task is registered in the index all the same.
FailStep_Registers(i) ==
    /\ faults < MaxFaults
    /\ faults' = faults + 1
    /\ summary' = RecordError(summary, tasks[i])
    /\ tstate' = [Finish(i, "error") EXCEPT ![i].failed = @ \cup {"transfer"}]
    /\ semValue' = Release(semValue)
    /\ index' = RegisterIndex(index, tasks[i].target, tasks[i].checksum, tasks[i].source_asset)

\* A remote call of task i fails with an exception: except Exception records
\* it and the task leaves the semaphore.
FailStep(i) ==
    /\ faults < MaxFaults
    /\ faults' = faults + 1
    /\ summary' = RecordError(summary, tasks[i])
    /\ tstate' = [Finish(i, "error") EXCEPT ![i].failed = @ \cup {"transfer"}]
    /\ semValue' = Release(semValue)
    /\ UNCHANGED index

\* add_assets_to_album(existing_id) answers: the task is linked.
LinkDone(i) ==
    /\ phase = "running"
    /\ tstate[i].pc = "link"
    /\ LET t == tasks[i] IN
       \/ /\ summary' = RegisterStats(CountLinked(summary, t.target), t.target)
          /\ index' = RegisterIndex(index, t.target, t.checksum, t.source_asset)
          /\ tstate' = Finish(i, "linked")
          /\ semValue' = Release(semValue)
          /\ UNCHANGED faults
       \/ FailStep(i)
    /\ UNCHANGED <<exit_code, config, dry_run, phase, cursor, assets, tasks, semSize, clients, cancelled>>
    /\ UNCHANGED <<svcVars, httpVars, loadVars, missingVars, metaVars, overlapVars>>

\* download_asset answers: size gate B takes len() of what it returned, then
\* the upload is issued.
DownloadDone(i) ==
    /\ phase = "running"
    /\ tstate[i].pc = "download"
    /\ LET t == tasks[i] IN
       \/ \E content \in DownloadResults :
            IF GateBReached(t) /\ ~PyLen(content).ok
            THEN /\ summary' = RecordError(summary, t)
                 /\ tstate' = [Finish(i, "error") EXCEPT ![i].failed = @ \cup {"length"}]
                 /\ semValue' = Release(semValue)
                 /\ UNCHANGED <<index, faults>>
            ELSE IF GateBReached(t) /\ GateB(t, PyLen(content).value)
            THEN /\ summary' = CountOversize(summary, t)
                 /\ tstate' = Finish(i, "oversize")
                 /\ semValue' = Release(semValue)
                 /\ UNCHANGED <<index, faults>>
            ELSE /\ tstate' = [tstate EXCEPT
                                  ![i].pc = "upload",
                                  ![i].check = NoCheck,
                                  ![i].calls = Append(@, Call("upload", t.target,
                                                   UploadFilename(t.source_asset, t.checksum)))]
                 /\ UNCHANGED <<summary, index, semValue, faults>>
       \/ FailStep(i)
    /\ UNCHANGED <<exit_code, config, dry_run, phase, cursor, assets, tasks, semSize, clients, cancelled>>
    /\ UNCHANGED <<svcVars, httpVars, loadVars, missingVars, metaVars, overlapVars>>

\* Variant: the two keys of the upload body are consulted in the other order.
NewId_AssetIdFirst(resp) == OrElse(resp.assetId, resp.id)

\* new_id = upload_response.get("id") or upload_response.get("assetId")
NewId(resp) == OrElse(resp.id, resp.assetId)

\* Variant: the body is not examined for an id.
MissingId_Never(resp) == FALSE

\* if not new_id: raise RuntimeError (lines 362-363)
MissingId(resp) == NewId(resp) = ""

\* upload_asset answers: the returned id is added to the target album.
UploadDone(i) ==
    /\ phase = "running"
    /\ tstate[i].pc = "upload"
    /\ LET t == tasks[i] IN
       \/ \E resp \in UploadResponses :
            IF MissingId(resp)
            THEN /\ faults < MaxFaults
                 /\ faults' = faults + 1
                 /\ summary' = RecordError(summary, t)
                 /\ tstate' = [Finish(i, "error") EXCEPT
                                  ![i].failed = @ \cup {"transfer", "noid"}]
                 /\ semValue' = Release(semValue)
                 /\ UNCHANGED index
            ELSE /\ tstate' = [tstate EXCEPT
                                  ![i].pc = "add",
                                  ![i].upload = resp,
                                  ![i].calls = Append(@, Call("add", t.target, NewId(resp)))]
                 /\ UNCHANGED <<summary, index, semValue, faults>>
       \/ FailStep(i)
    /\ UNCHANGED <<exit_code, config, dry_run, phase, cursor, assets, tasks, semSize, clients, cancelled>>
    /\ UNCHANGED <<svcVars, httpVars, loadVars, missingVars, metaVars, overlapVars>>

\* add_assets_to_album(new_id) answers: the task is copied.
AddDone(i) ==
    /\ phase = "running"
    /\ tstate[i].pc = "add"
    /\ LET t == tasks[i] IN
       \/ /\ summary' = RegisterStats(CountCopied(summary, t.target), t.target)
          /\ index' = RegisterIndex(index, t.target, t.checksum, t.source_asset)
          /\ tstate' = Finish(i, "copied")
          /\ semValue' = Release(semValue)
          /\ UNCHANGED faults
       \/ FailStep(i)
    /\ UNCHANGED <<exit_code, config, dry_run, phase, cursor, assets, tasks, semSize, clients, cancelled>>
    /\ UNCHANGED <<svcVars, httpVars, loadVars, missingVars, metaVars, overlapVars>>

\* gather has collected every task: the clients are closed and the summary
\* is returned.
Return ==
    /\ phase = "running"
    /\ \A i \in TaskIds : tstate[i].pc = "done"
    /\ phase' = "returned"
    /\ clients' = CloseClients(config, clients)
    /\ UNCHANGED <<exit_code, config, dry_run, cursor, assets, index, summary, tasks, tstate,
                   semValue, semSize, cancelled, faults>>
    /\ UNCHANGED <<svcVars, httpVars, loadVars, missingVars, metaVars, overlapVars>>

\* The caller cancels the run (KeyboardInterrupt in main): CancelledError is
\* thrown into gather and into every unfinished task, passes the finally
\* blocks and leaves sync_assets.
Cancel ==
    /\ phase = "running"
    /\ phase' = "raised"
    /\ cancelled' = TRUE
    /\ tstate' = [i \in TaskIds |->
                    IF tstate[i].pc = "done" THEN tstate[i]
                    ELSE [NewTask EXCEPT !.pc = "cancelled"]]
    /\ semValue' = semValue + Cardinality(InFlight)
    /\ clients' = CloseClients(config, clients)
    /\ summary' = NoSummary
    /\ index' = EmptyMap
    /\ UNCHANGED <<exit_code, config, dry_run, cursor, assets, tasks, semSize, faults>>
    /\ UNCHANGED <<svcVars, httpVars, loadVars, missingVars, metaVars, overlapVars>>

\* The value main hands to sys.exit: 2 when load_config raised ValueError,
\* 130 on KeyboardInterrupt, 1 or 0 by summary.errors.  Any other exception
\* leaves main uncaught and the interpreter exits with status 1.
ExitCode(ph, canc, errors) ==
    IF ph = "rejected" THEN 2
    ELSE IF ph = "raised" THEN (IF canc THEN 130 ELSE 1)
    ELSE IF errors # <<>> THEN 1
    ELSE 0

\* main returns.
MainExit ==
    /\ (phase = "rejected" \/ config \in Configs)
    /\ phase \in {"rejected", "returned", "raised"}
    /\ exit_code = -1
    /\ exit_code' = ExitCode(phase, cancelled, summary.errors)
    /\ UNCHANGED <<config, dry_run, phase, cursor, assets, index, summary, tasks, tstate,
                   semValue, semSize, clients, cancelled, faults>>
    /\ UNCHANGED <<svcVars, httpVars, loadVars, missingVars, metaVars, overlapVars>>

SyncNext ==
    \/ ListDone
    \/ ListFail
    \/ \E i \in TaskIds : Start(i)
    \/ \E i \in TaskIds : CheckDone(i)
    \/ \E i \in TaskIds : LinkDone(i)
    \/ \E i \in TaskIds : DownloadDone(i)
    \/ \E i \in TaskIds : UploadDone(i)
    \/ \E i \in TaskIds : AddDone(i)
    \/ Return
    \/ Cancel
    \/ MainExit

(***************************************************************************)
(* SyncService.run_sync_group: one run for one group, and the progress     *)
(* record that get_progress reads under the lock.                          *)
(***************************************************************************)
MkInstance(id, album_id, limit) ==
    [id |-> id, album_id |-> album_id, size_limit_bytes |-> limit]

\* The active instances of the group, in query order.
Groups ==
    { <<MkInstance(1, "album-a", 4), MkInstance(2, "album-a", 4)>>,
      <<MkInstance(1, "album-b", 4), MkInstance(2, "album-c", 8),
        MkInstance(3, "album-c", 4)>> }

\* get_progress for a group without a progress record.
NoProgress ==
    [status |-> "idle", total |-> 0, done |-> 0, remaining |-> 0, already |-> 0,
     per_instance |-> EmptyMap, oversized |-> EmptyMap]

ChecksumsOf(album) == {album[k].checksum : k \in 1..Len(album)} \ {""}

SvcUnion(ia) == UNION {ChecksumsOf(ia[id]) : id \in DOMAIN ia}

SvcMissing(ia, id) == SvcUnion(ia) \ ChecksumsOf(ia[id])

RECURSIVE SumOver(_, _)
SumOver(f, S) ==
    IF S = {} THEN 0
    ELSE LET x == CHOOSE y \in S : TRUE IN f[x] + SumOver(f, S \ {x})

\* The record stored under the lock at lines 205-217.
InitialProgress(ia) ==
    LET missing == [id \in DOMAIN ia |-> Cardinality(SvcMissing(ia, id))]
        already == [id \in DOMAIN ia |-> Cardinality(SvcUnion(ia) \cap ChecksumsOf(ia[id]))]
    IN [status |-> "running",
        total |-> SumOver(missing, DOMAIN ia),
        done |-> 0,
        remaining |-> SumOver(missing, DOMAIN ia),
        already |-> SumOver(already, DOMAIN ia),
        per_instance |-> [id \in DOMAIN ia |->
                            [missing |-> missing[id], done |-> 0, already |-> already[id]]],
        oversized |-> [id \in DOMAIN ia |-> <<>>]]

\* The two nested for loops: the next target that still has a checksum to
\* handle, or Len(insts) + 1 when the loops are over.
RECURSIVE Advance(_, _, _, _)
Advance(insts, ia, t, todo) ==
    IF t > Len(insts) \/ todo # {} THEN [target |-> t, todo |-> todo]
    ELSE IF t = Len(insts) THEN [target |-> t + 1, todo |-> {}]
    ELSE Advance(insts, ia, t + 1, SvcMissing(ia, insts[t + 1].id))

\* First asset with the checksum in a listing (next(...), lines 233).
FirstWith(album, c) ==
    LET hits == {k \in 1..Len(album) : album[k].checksum = c} IN
    album[CHOOSE k \in hits : \A m \in hits : k <= m]

\* The source instance of lines 228-237: first instance other than the
\* target whose listing holds the checksum.
SvcSource(insts, ia, t, c) ==
    LET hits == {k \in 1..Len(insts) : k # t /\ c \in ChecksumsOf(ia[insts[k].id])} IN
    IF hits = {} THEN [found |-> FALSE, inst |-> 0, asset |-> AssetNoChecksum]
    ELSE LET k == CHOOSE j \in hits : \A m \in hits : j <= m IN
         [found |-> TRUE, inst |-> k, asset |-> FirstWith(ia[insts[k].id], c)]

\* done += 1 for the group and for the target (first two lines of each
\* locked block).
BumpDone(p, id) == [p EXCEPT !.done = @ + 1, !.per_instance[id].done = @ + 1]

\* The locked block after a copy: done, then remaining.
BumpAndRemaining(p, id) ==
    LET q == BumpDone(p, id) IN [q EXCEPT !.remaining = Max(0, q.total - q.done)]

\* No caller holds a snapshot.
NoSnapshot == [taken |-> FALSE, shared |-> FALSE, labelled |-> FALSE, at_call |-> NoProgress]

\* get_progress: dict(...) of the stored record copies the top-level keys;
\* the values under "per_instance" and "oversized" are the stored objects
\* themselves.  Without a stored record the default literal is built anew.
get_progress(p) ==
    [taken |-> TRUE, shared |-> p # NoProgress, labelled |-> FALSE, at_call |-> p]

\* What the holder of a snapshot reads from it.
SnapshotView(snap, p) ==
    IF snap.shared
    THEN [snap.at_call EXCEPT !.per_instance = p.per_instance, !.oversized = p.oversized]
    ELSE snap.at_call

\* An ImmichClient of the run: the one _fetch_instance_assets builds for an
\* instance ("list"), or one of the two _copy_asset_between_instances builds
\* for the source and the target of a copy.
ListingClients(insts) == {[role |-> "list", inst |-> k] : k \in 1..Len(insts)}

CopyClients(src, tgt) == {[role |-> "src", inst |-> src], [role |-> "tgt", inst |-> tgt]}

SvcInit ==
    /\ sClients = {}
    /\ snapshot = NoSnapshot
    /\ instances \in Groups
    /\ instance_assets = EmptyMap
    /\ progress = NoProgress
    /\ sPc = "fetch"
    /\ sTarget = 0
    /\ sTodo = {}
    /\ sCur = ""
    /\ crashed = FALSE

\* The listings arrive; the progress record is initialised and the loops
\* are entered.
FetchDone ==
    /\ sPc = "fetch"
    /\ \E ia \in [{instances[k].id : k \in 1..Len(instances)} -> Albums] :
         /\ \A k \in 1..Len(instances) : ia[instances[k].id] \in RemoteAlbums(instances[k].album_id)
         /\ instance_assets' = ia
         /\ progress' = InitialProgress(ia)
         /\ LET pos == Advance(instances, ia, 1, SvcMissing(ia, instances[1].id)) IN
            /\ sTarget' = pos.target
            /\ sTodo' = pos.todo
    /\ sPc' = "loop"
    /\ UNCHANGED <<snapshot, instances, sCur, crashed>>
    /\ sClients' = ListingClients(instances)
    /\ UNCHANGED <<syncVars, httpVars, loadVars, missingVars, metaVars, overlapVars>>

\* One listing raises: gather raises before the try block is entered.
FetchFail ==
    /\ sPc = "fetch"
    /\ sPc' = "ended"
    /\ crashed' = TRUE
    /\ UNCHANGED <<snapshot, instances, instance_assets, progress, sTarget, sTodo, sCur>>
    /\ sClients' = ListingClients(instances)
    /\ UNCHANGED <<syncVars, httpVars, loadVars, missingVars, metaVars, overlapVars>>

\* Variant: the record is not touched when the run ends.
MarkIdle_Skip(p) == p

\* finally (lines 292-298): a stored record is marked idle, its other keys
\* are left as they are.
MarkIdle(p) == IF p = NoProgress THEN p ELSE [p EXCEPT !.status = "idle"]

\* _update_index_for_instance raises (line 187): the try block is left
\* before a progress record is stored.
IndexFail ==
    /\ sPc = "fetch"
    /\ progress' = MarkIdle(progress)
    /\ sPc' = "ended"
    /\ crashed' = TRUE
    /\ UNCHANGED <<snapshot, instances, instance_assets, sTarget, sTodo, sCur>>
    /\ sClients' = {}
    /\ UNCHANGED <<syncVars, httpVars, loadVars, missingVars, metaVars, overlapVars>>

\* One iteration of the inner loop up to its first await or its continue.
LoopStep ==
    /\ sPc = "loop"
    /\ sTarget <= Len(instances)
    /\ \E c \in sTodo :
         LET target == instances[sTarget]
             src == SvcSource(instances, instance_assets, sTarget, c)
             pos == Advance(instances, instance_assets, sTarget, sTodo \ {c})
         IN IF ~src.found
            THEN /\ progress' = BumpDone(progress, target.id)
                 /\ sTarget' = pos.target
                 /\ sTodo' = pos.todo
                 /\ UNCHANGED <<sPc, sCur, sClients>>
            ELSE IF src.asset.sizeKnown /\ src.asset.size > target.size_limit_bytes
            THEN /\ progress' = [BumpDone(progress, target.id) EXCEPT
                                    !.oversized[target.id] =
                                        Append(@, [checksum |-> c,
                                                   filename |-> src.asset.originalFileName,
                                                   size |-> src.asset.size])]
                 /\ sTarget' = pos.target
                 /\ sTodo' = pos.todo
                 /\ UNCHANGED <<sPc, sCur, sClients>>
            ELSE /\ sPc' = "copy"
                 /\ sCur' = c
                 /\ sClients' = sClients \cup CopyClients(src.inst, sTarget)
                 /\ UNCHANGED <<progress, sTarget, sTodo>>
    /\ UNCHANGED <<snapshot, instances, instance_assets, crashed>>
    /\ UNCHANGED <<syncVars, httpVars, loadVars, missingVars, metaVars, overlapVars>>

\* _copy_asset_between_instances returns (True or False): first locked
\* block after the copy (lines 263-277).
CopyReturns ==
    /\ sPc = "copy"
    /\ progress' = BumpAndRemaining(progress, instances[sTarget].id)
    /\ sPc' = "bump"
    /\ UNCHANGED <<snapshot, instances, instance_assets, sTarget, sTodo, sCur, crashed>>
    /\ sClients' = sClients \ CopyClients(SvcSource(instances, instance_assets, sTarget, sCur).inst, sTarget)
    /\ UNCHANGED <<syncVars, httpVars, loadVars, missingVars, metaVars, overlapVars>>

\* _copy_asset_between_instances raises (the source listing, the read of
\* the body, the upload or the add-to-album of the new id failed; only the
\* bulk check and the download are inside an except): the finally block
\* marks the record idle and the exception leaves run_sync_group.
CopyRaises ==
    /\ sPc = "copy"
    /\ progress' = MarkIdle(progress)
    /\ sPc' = "ended"
    /\ crashed' = TRUE
    /\ UNCHANGED <<snapshot, instances, instance_assets, sTarget, sTodo, sCur>>
    /\ sClients' = {}
    /\ UNCHANGED <<syncVars, httpVars, loadVars, missingVars, metaVars, overlapVars>>

\* Second locked block after the copy (lines 278-291).
SecondBlock ==
    /\ sPc = "bump"
    /\ progress' = BumpAndRemaining(progress, instances[sTarget].id)
    /\ LET pos == Advance(instances, instance_assets, sTarget, sTodo \ {sCur}) IN
       /\ sTarget' = pos.target
       /\ sTodo' = pos.todo
    /\ sPc' = "loop"
    /\ sCur' = ""
    /\ UNCHANGED <<snapshot, instances, instance_assets, crashed>>
    /\ UNCHANGED sClients
    /\ UNCHANGED <<syncVars, httpVars, loadVars, missingVars, metaVars, overlapVars>>

\* The loops are over: finally marks the record idle.
Finished ==
    /\ sPc = "loop"
    /\ sTarget > Len(instances)
    /\ progress' = MarkIdle(progress)
    /\ sPc' = "ended"
    /\ UNCHANGED <<snapshot, instances, instance_assets, sTarget, sTodo, sCur, crashed>>
    /\ sClients' = {}
    /\ UNCHANGED <<syncVars, httpVars, loadVars, missingVars, metaVars, overlapVars>>

\* GET /api/groups/{id}/progress: the route takes a snapshot and adds the
\* instance_labels key to it.
GroupProgress ==
    /\ ~snapshot.taken
    /\ snapshot' = [get_progress(progress) EXCEPT !.labelled = TRUE]
    /\ UNCHANGED <<instances, instance_assets, progress, sPc, sTarget, sTodo, sCur, crashed>>
    /\ UNCHANGED sClients
    /\ UNCHANGED <<syncVars, httpVars, loadVars, missingVars, metaVars, overlapVars>>

SvcNext ==
    \/ GroupProgress
    \/ FetchDone
    \/ FetchFail
    \/ IndexFail
    \/ LoopStep
    \/ CopyReturns
    \/ CopyRaises
    \/ SecondBlock
    \/ Finished

(***************************************************************************)
(* A second run of run_sync_group for the same group.                      *)
(* run_sync_group_in_thread starts a thread per call and no caller asks    *)
(* whether a run of the group is active, so the second run executes the    *)
(* same code as the first, on its own listings and loop variables, and on  *)
(* the one progress record of the group.  Each locked block is one step.   *)
(* The ImmichClients of the second run are its own objects; sClients holds *)
(* those of the first run only.                                            *)
(***************************************************************************)

\* run_sync_group_in_thread (lines 26-37): the thread is started whatever
\* the first run is doing.
TriggerSecond ==
    /\ oPc = "none"
    /\ sPc # "ended"
    /\ oPc' = "fetch"
    /\ UNCHANGED <<progress, oAssets, oTarget, oTodo, oCur>>
    /\ UNCHANGED <<instances, instance_assets, sPc, sTarget, sTodo, sCur, crashed, snapshot, sClients>>
    /\ UNCHANGED <<syncVars, httpVars, loadVars, missingVars, metaVars>>

\* The second run's listings arrive: it stores a fresh record under the
\* group id (lines 205-217), replacing the one the first run stored.
SecondFetchDone ==
    /\ oPc = "fetch"
    /\ \E ia \in [{instances[k].id : k \in 1..Len(instances)} -> Albums] :
         /\ \A k \in 1..Len(instances) : ia[instances[k].id] \in RemoteAlbums(instances[k].album_id)
         /\ oAssets' = ia
         /\ progress' = InitialProgress(ia)
         /\ LET pos == Advance(instances, ia, 1, SvcMissing(ia, instances[1].id)) IN
            /\ oTarget' = pos.target
            /\ oTodo' = pos.todo
    /\ oPc' = "loop"
    /\ UNCHANGED oCur
    /\ UNCHANGED <<instances, instance_assets, sPc, sTarget, sTodo, sCur, crashed, snapshot, sClients>>
    /\ UNCHANGED <<syncVars, httpVars, loadVars, missingVars, metaVars>>

\* A listing of the second run raises before its try block is entered.
SecondFetchFail ==
    /\ oPc = "fetch"
    /\ oPc' = "ended"
    /\ UNCHANGED <<progress, oAssets, oTarget, oTodo, oCur>>
    /\ UNCHANGED <<instances, instance_assets, sPc, sTarget, sTodo, sCur, crashed, snapshot, sClients>>
    /\ UNCHANGED <<syncVars, httpVars, loadVars, missingVars, metaVars>>

\* _update_index_for_instance of the second run raises (line 187): its
\* finally marks whatever record is stored under the group id idle.
SecondIndexFail ==
    /\ oPc = "fetch"
    /\ progress' = MarkIdle(progress)
    /\ oPc' = "ended"
    /\ UNCHANGED <<oAssets, oTarget, oTodo, oCur>>
    /\ UNCHANGED <<instances, instance_assets, sPc, sTarget, sTodo, sCur, crashed, snapshot, sClients>>
    /\ UNCHANGED <<syncVars, httpVars, loadVars, missingVars, metaVars>>

\* One pass of the second run's inner loop up to its first await.
SecondLoopStep ==
    /\ oPc = "loop"
    /\ oTarget <= Len(instances)
    /\ \E c \in oTodo :
         LET target == instances[oTarget]
             src == SvcSource(instances, oAssets, oTarget, c)
             pos == Advance(instances, oAssets, oTarget, oTodo \ {c})
         IN IF ~src.found
            THEN /\ progress' = BumpDone(progress, target.id)
                 /\ oTarget' = pos.target
                 /\ oTodo' = pos.todo
                 /\ UNCHANGED <<oPc, oCur>>
            ELSE IF src.asset.sizeKnown /\ src.asset.size > target.size_limit_bytes
            THEN /\ progress' = [BumpDone(progress, target.id) EXCEPT
                                    !.oversized[target.id] =
                                        Append(@, [checksum |-> c,
                                                   filename |-> src.asset.originalFileName,
                                                   size |-> src.asset.size])]
                 /\ oTarget' = pos.target
                 /\ oTodo' = pos.todo
                 /\ UNCHANGED <<oPc, oCur>>
            ELSE /\ oPc' = "copy"
                 /\ oCur' = c
                 /\ UNCHANGED <<progress, oTarget, oTodo>>
    /\ UNCHANGED oAssets
    /\ UNCHANGED <<instances, instance_assets, sPc, sTarget, sTodo, sCur, crashed, snapshot, sClients>>
    /\ UNCHANGED <<syncVars, httpVars, loadVars, missingVars, metaVars>>

\* The second run's copy returns: first locked block (lines 263-277).
SecondCopyReturns ==
    /\ oPc = "copy"
    /\ progress' = BumpAndRemaining(progress, instances[oTarget].id)
    /\ oPc' = "bump"
    /\ UNCHANGED <<oAssets, oTarget, oTodo, oCur>>
    /\ UNCHANGED <<instances, instance_assets, sPc, sTarget, sTodo, sCur, crashed, snapshot, sClients>>
    /\ UNCHANGED <<syncVars, httpVars, loadVars, missingVars, metaVars>>

\* The second run's copy raises: its finally marks the record idle.
SecondCopyRaises ==
    /\ oPc = "copy"
    /\ progress' = MarkIdle(progress)
    /\ oPc' = "ended"
    /\ UNCHANGED <<oAssets, oTarget, oTodo, oCur>>
    /\ UNCHANGED <<instances, instance_assets, sPc, sTarget, sTodo, sCur, crashed, snapshot, sClients>>
    /\ UNCHANGED <<syncVars, httpVars, loadVars, missingVars, metaVars>>

\* The second run's second locked block (lines 278-291).
SecondSecondBlock ==
    /\ oPc = "bump"
    /\ progress' = BumpAndRemaining(progress, instances[oTarget].id)
    /\ LET pos == Advance(instances, oAssets, oTarget, oTodo \ {oCur}) IN
       /\ oTarget' = pos.target
       /\ oTodo' = pos.todo
    /\ oPc' = "loop"
    /\ oCur' = ""
    /\ UNCHANGED oAssets
    /\ UNCHANGED <<instances, instance_assets, sPc, sTarget, sTodo, sCur, crashed, snapshot, sClients>>
    /\ UNCHANGED <<syncVars, httpVars, loadVars, missingVars, metaVars>>

\* The second run's loops are over: its finally marks the record idle.
SecondFinished ==
    /\ oPc = "loop"
    /\ oTarget > Len(instances)
    /\ progress' = MarkIdle(progress)
    /\ oPc' = "ended"
    /\ UNCHANGED <<oAssets, oTarget, oTodo, oCur>>
    /\ UNCHANGED <<instances, instance_assets, sPc, sTarget, sTodo, sCur, crashed, snapshot, sClients>>
    /\ UNCHANGED <<syncVars, httpVars, loadVars, missingVars, metaVars>>

OverlapNext ==
    \/ FetchDone
    \/ FetchFail
    \/ IndexFail
    \/ LoopStep
    \/ CopyReturns
    \/ CopyRaises
    \/ SecondBlock
    \/ Finished
    \/ TriggerSecond
    \/ SecondFetchDone
    \/ SecondFetchFail
    \/ SecondIndexFail
    \/ SecondLoopStep
    \/ SecondCopyReturns
    \/ SecondCopyRaises
    \/ SecondSecondBlock
    \/ SecondFinished

(***************************************************************************)
(* ImmichClient: the endpoint variants of one operation and the rule by    *)
(* which a later variant is requested.                                     *)
(***************************************************************************)
Req(method, path) == [method |-> method, path |-> path]

\* A response: its status and whether its body parses as JSON.
Responses == [status : {200, 404, 405, 500}, json : BOOLEAN]

\* The asset id of a download, the album id of an add.
HttpArgs(op) ==
    IF op = "download" THEN {"x1", "x2"}
    ELSE IF op = "add" THEN {"album-a"}
    ELSE {""}

\* The requests an operation may send, in the order it tries them.
Variants(op, arg) ==
    IF op = "download"
    THEN << Req("GET", "/api/assets/" \o arg \o "/original"),
            Req("GET", "/api/assets/download/" \o arg),
            Req("GET", "/api/assets/" \o arg \o "/download") >>
    ELSE IF op = "upload"
    THEN << Req("POST", "/api/assets"), Req("POST", "/api/assets/upload") >>
    ELSE IF op = "add"
    THEN << Req("PUT", "/api/albums/" \o arg \o "/assets"),
            Req("POST", "/api/albums/" \o arg \o "/assets") >>
    ELSE << Req("POST", "/api/assets/bulk-upload-check") >>

\* Variant: a server error moves on to the next variant as well.
AdvanceOn_AnyError(op) == {404, 405, 500}

\* The statuses after which the next variant is requested.
AdvanceOn(op) ==
    IF op \in {"download", "upload"} THEN {404}
    ELSE IF op = "add" THEN {404, 405}
    ELSE {}

NoResult == [kind |-> "none", from |-> 0]

\* What the operation does with its last response, the k-th one:
\* raise_for_status, then the return statement.
Conclude(op, r, k) ==
    IF r.status >= 400 THEN [pc |-> "raised", result |-> NoResult]
    ELSE IF op = "download" THEN [pc |-> "returned", result |-> [kind |-> "response", from |-> k]]
    ELSE IF r.json THEN [pc |-> "returned", result |-> [kind |-> "json", from |-> k]]
    ELSE IF op = "add" THEN [pc |-> "returned", result |-> [kind |-> "empty list", from |-> 0]]
    ELSE [pc |-> "raised", result |-> NoResult]

HttpInit ==
    /\ hOp = "none"
    /\ hArg = ""
    /\ hReqs = <<>>
    /\ hResps = <<>>
    /\ hPc = "idle"
    /\ hResult = NoResult

\* The operation is called and sends its first request.
HttpCall ==
    /\ hPc = "idle"
    /\ \E op \in {"download", "upload", "add", "check"} : \E arg \in HttpArgs(op) :
         /\ hOp' = op
         /\ hArg' = arg
         /\ hReqs' = <<Variants(op, arg)[1]>>
    /\ hPc' = "waiting"
    /\ UNCHANGED <<hResps, hResult>>
    /\ UNCHANGED <<syncVars, svcVars, loadVars, missingVars, metaVars, overlapVars>>

\* A response arrives: the next variant is requested, or the operation ends.
HttpAnswer ==
    /\ hPc = "waiting"
    /\ \E r \in Responses :
         LET k == Len(hReqs)
             chain == Variants(hOp, hArg)
         IN /\ hResps' = Append(hResps, r)
            /\ IF r.status \in AdvanceOn(hOp) /\ k < Len(chain)
               THEN /\ hReqs' = Append(hReqs, chain[k + 1])
                    /\ UNCHANGED <<hPc, hResult>>
               ELSE /\ hPc' = Conclude(hOp, r, k).pc
                    /\ hResult' = Conclude(hOp, r, k).result
                    /\ UNCHANGED hReqs
    /\ UNCHANGED <<hOp, hArg>>
    /\ UNCHANGED <<syncVars, svcVars, loadVars, missingVars, metaVars, overlapVars>>

\* The request fails without a response (connection error, timeout).
HttpTransportError ==
    /\ hPc = "waiting"
    /\ hPc' = "raised"
    /\ UNCHANGED <<hOp, hArg, hReqs, hResps, hResult>>
    /\ UNCHANGED <<syncVars, svcVars, loadVars, missingVars, metaVars, overlapVars>>

HttpNext ==
    \/ HttpCall
    \/ HttpAnswer
    \/ HttpTransportError

(***************************************************************************)
(* load_config: the configuration file as parsed JSON, and its validation. *)
(***************************************************************************)
MaxEntries == 2

\* A JSON value under "size_limit_bytes".  kind "float" is a number with a
\* fractional part whose integer part is value; "numstr" is a string of
\* digits; "str" is any other string.
Lim(kind, value) == [kind |-> kind, value |-> value]

RequiredFields == {"name", "base_url", "api_key", "album_id"}

MkRaw(isDict, has, name, album_id, limit) ==
    [isDict |-> isDict, has |-> has, name |-> name, album_id |-> album_id, limit |-> limit]

EntryPool ==
    { MkRaw(TRUE, RequiredFields, "A", "album-a", Lim("absent", 0)),
      MkRaw(TRUE, RequiredFields, "B", "album-b", Lim("int", 5)),
      MkRaw(TRUE, RequiredFields, " A", "album-b", Lim("absent", 0)),
      MkRaw(TRUE, RequiredFields, "", "album-b", Lim("absent", 0)),
      MkRaw(TRUE, RequiredFields, " ", "album-b", Lim("absent", 0)),
      MkRaw(TRUE, RequiredFields \ {"album_id"}, "B", "", Lim("absent", 0)),
      MkRaw(FALSE, {}, "", "", Lim("absent", 0)),
      MkRaw(TRUE, RequiredFields, "B", "album-b", Lim("null", 0)),
      MkRaw(TRUE, RequiredFields, "B", "album-b", Lim("int", 0)),
      MkRaw(TRUE, RequiredFields, "B", "album-b", Lim("int", -1)),
      MkRaw(TRUE, RequiredFields, "B", "album-b", Lim("float", 2)),
      MkRaw(TRUE, RequiredFields, "B", "album-b", Lim("float", 0)),
      MkRaw(TRUE, RequiredFields, "B", "album-b", Lim("numstr", 7)),
      MkRaw(TRUE, RequiredFields, "B", "album-b", Lim("str", 0)),
      MkRaw(TRUE, RequiredFields, "B", "album-b", Lim("bool", 1)) }

\* The file: kind "nofile" (missing), "badjson", "notobject" (valid JSON
\* whose root is not an object) or "object"; serversKind "absent", "notlist"
\* or "list" with the given items.
MkFile(kind, serversKind, items) == [kind |-> kind, serversKind |-> serversKind, items |-> items]

RawConfigs ==
    { MkFile("nofile", "absent", <<>>), MkFile("badjson", "absent", <<>>),
      MkFile("notobject", "absent", <<>>), MkFile("object", "absent", <<>>),
      MkFile("object", "notlist", <<>>) }
    \cup { MkFile("object", "list", items) :
             items \in UNION {[1..n -> EntryPool] : n \in 0..MaxEntries} }

\* str.strip() on the names of the pool.
Strip(s) == IF s = " A" THEN "A" ELSE IF s = " " THEN "" ELSE s

Rejected(msg) == [state |-> "error", error |-> msg, servers |-> <<>>]

NotLoaded == [state |-> "none", error |-> "", servers |-> <<>>]

\* entry.get("size_limit_bytes"), int(...) and the sign check (lines
\* 119-129).  int() keeps an int, truncates a float, parses a string of
\* digits, maps a bool to 0 or 1 and raises on anything else.
ParseLimit(v) ==
    IF v.kind \in {"absent", "null"} THEN [error |-> "", hasLimit |-> FALSE, value |-> 0]
    ELSE IF v.kind \in {"str", "list"}
    THEN [error |-> "must be an integer", hasLimit |-> FALSE, value |-> 0]
    ELSE IF v.value <= 0
    THEN [error |-> "must be positive", hasLimit |-> FALSE, value |-> 0]
    ELSE [error |-> "", hasLimit |-> TRUE, value |-> v.value]

\* The loop over servers_data and the final length check (lines 99-144).
RECURSIVE LoadEntries(_, _, _, _)
LoadEntries(items, idx, seen_names, servers) ==
    IF idx > Len(items)
    THEN IF Len(servers) < 2 THEN Rejected("least two") ELSE [state |-> "ok", error |-> "", servers |-> servers]
    ELSE LET entry == items[idx]
             name == Strip(entry.name)
             limit == ParseLimit(entry.limit)
         IN IF ~entry.isDict THEN Rejected("must be an object")
            ELSE IF RequiredFields \ entry.has # {} THEN Rejected("missing")
            ELSE IF name = "" THEN Rejected("cannot be empty")
            ELSE IF name \in seen_names THEN Rejected("Duplicate")
            ELSE IF limit.error # "" THEN Rejected(limit.error)
            ELSE LoadEntries(items, idx + 1, seen_names \cup {name},
                             Append(servers, MkServer(name, entry.album_id,
                                                      limit.hasLimit, limit.value)))

load_config(file) ==
    IF file.kind = "nofile" THEN Rejected("does not exist")
    ELSE IF file.kind = "badjson" THEN Rejected("not valid JSON")
    ELSE IF file.kind # "object" \/ file.serversKind # "list" \/ file.items = <<>>
    THEN Rejected("non-empty")
    ELSE LoadEntries(file.items, 1, {}, <<>>)

ConfigInit ==
    /\ raw \in RawConfigs
    /\ loaded = NotLoaded

\* load_config is applied to the file.
LoadConfig ==
    /\ loaded = NotLoaded
    /\ loaded' = load_config(raw)
    /\ UNCHANGED raw
    /\ UNCHANGED <<syncVars, svcVars, httpVars, missingVars, metaVars, overlapVars>>

LoadNext == LoadConfig

(***************************************************************************)
(* compute_missing applied to indexes built from arbitrary listings.       *)
(***************************************************************************)
MaxCalls == 2

MissingInit ==
    /\ \E names \in {{}, {"A", "B"}, {"A", "B", "C"}} : mAssets \in [names -> Albums]
    /\ mCalls = <<>>

\* One call of compute_missing on the index of the listings.
ComputeMissing ==
    /\ Len(mCalls) < MaxCalls
    /\ LET idx == index_assets(mAssets).index IN
       \E order \in IterationOrders(UnionOf(idx)) :
           mCalls' = Append(mCalls, compute_missing(idx, order))
    /\ UNCHANGED mAssets
    /\ UNCHANGED <<syncVars, svcVars, httpVars, loadVars, metaVars, overlapVars>>

MissingNext == ComputeMissing

(***************************************************************************)
(* The upload filename and metadata _ensure_asset_on_target builds.        *)
(***************************************************************************)
NoUploadArgs == [prepared |-> FALSE, filename |-> "", metadata |-> EmptyMap]

\* metadata = {...} (lines 354-359)
UploadMetadata(source, asset, c) ==
    [deviceAssetId |-> OrElse(asset.deviceAssetId, source \o "-" \o c),
     deviceId |-> OrElse(asset.deviceId, "ImmichSync-" \o source),
     fileCreatedAt |-> OrElse(asset.fileCreatedAt, ""),
     fileModifiedAt |-> OrElse(asset.fileModifiedAt, OrElse(asset.fileCreatedAt, ""))]

\* uAsset: the fields of a listed asset the upload reads; "" stands for a
\* missing or None value.
MetaInit ==
    /\ uSource \in {"A", "B"}
    /\ uChecksum \in {"c1", "c2"}
    /\ uAsset \in [originalFileName : {"", "p.jpg"}, deviceAssetId : {"", "dev-asset-1"},
                  deviceId : {"", "phone"}, fileCreatedAt : {"", "t1"},
                  fileModifiedAt : {"", "t2"}]
    /\ uUpload = NoUploadArgs

\* Lines 353-360: the filename and the metadata are built and passed on.
PrepareUpload ==
    /\ ~uUpload.prepared
    /\ uUpload' = [prepared |-> TRUE,
                   filename |-> UploadFilename(uAsset, uChecksum),
                   metadata |-> UploadMetadata(uSource, uAsset, uChecksum)]
    /\ UNCHANGED <<uSource, uChecksum, uAsset>>
    /\ UNCHANGED <<syncVars, svcVars, httpVars, loadVars, missingVars, overlapVars>>

MetaNext == PrepareUpload

(***************************************************************************)
(* Specifications.                                                         *)
(***************************************************************************)
vars == <<syncVars, svcVars, httpVars, loadVars, missingVars, metaVars, overlapVars>>

\* No group run while sync_assets is analysed, and conversely.
SvcParked ==
    /\ sClients = {}
    /\ snapshot = NoSnapshot
    /\ instances = <<>>
    /\ instance_assets = EmptyMap
    /\ progress = NoProgress
    /\ sPc = "ended"
    /\ sTarget = 0
    /\ sTodo = {}
    /\ sCur = ""
    /\ crashed = FALSE

SyncParked ==
    /\ config = <<>>
    /\ dry_run = FALSE
    /\ phase = "returned"
    /\ cursor = 1
    /\ assets = EmptyMap
    /\ index = EmptyMap
    /\ summary = NoSummary
    /\ tasks = <<>>
    /\ tstate = <<>>
    /\ semValue = 0
    /\ semSize = 0
    /\ clients = {}
    /\ cancelled = FALSE
    /\ faults = 0
    /\ exit_code = -1

HttpParked ==
    /\ hOp = "none"
    /\ hArg = ""
    /\ hReqs = <<>>
    /\ hResps = <<>>
    /\ hPc = "raised"
    /\ hResult = NoResult

LoadParked ==
    /\ raw = MkFile("nofile", "absent", <<>>)
    /\ loaded = Rejected("does not exist")

MetaParked ==
    /\ uSource = ""
    /\ uChecksum = ""
    /\ uAsset = [originalFileName |-> "", deviceAssetId |-> "", deviceId |-> "",
                 fileCreatedAt |-> "", fileModifiedAt |-> ""]
    /\ uUpload = NoUploadArgs

OverlapParked ==
    /\ oPc = "none"
    /\ oAssets = EmptyMap
    /\ oTarget = 0
    /\ oTodo = {}
    /\ oCur = ""

MissingParked ==
    /\ mAssets = EmptyMap
    /\ mCalls = <<>>

Init == SyncInit /\ SvcParked /\ HttpParked /\ LoadParked /\ MissingParked /\ MetaParked
    /\ OverlapParked

Next == SyncNext

\* sync_assets
Spec == Init /\ [][Next]_vars

GroupInit == SvcInit /\ SyncParked /\ HttpParked /\ LoadParked /\ MissingParked /\ MetaParked
    /\ OverlapParked

GroupNext == SvcNext

\* run_sync_group
GroupSpec == GroupInit /\ [][GroupNext]_vars

\* run_sync_group while every await of the run eventually returns or raises.
FairGroupSpec == GroupInit /\ [][GroupNext]_vars /\ WF_vars(GroupNext)

ClientInit == HttpInit /\ SyncParked /\ SvcParked /\ LoadParked /\ MissingParked /\ MetaParked
    /\ OverlapParked

ClientNext == HttpNext

\* one operation of ImmichClient
ClientSpec == ClientInit /\ [][ClientNext]_vars

LoadInit == ConfigInit /\ SyncParked /\ SvcParked /\ HttpParked /\ MissingParked /\ MetaParked
    /\ OverlapParked

\* load_config
LoadSpec == LoadInit /\ [][LoadNext]_vars

MissingSpecInit ==
    MissingInit /\ SyncParked /\ SvcParked /\ HttpParked /\ LoadParked /\ MetaParked /\ OverlapParked

\* two runs of run_sync_group for one group
OverlapSpec == GroupInit /\ [][OverlapNext]_vars

\* compute_missing
MissingSpec == MissingSpecInit /\ [][MissingNext]_vars

MetaSpecInit ==
    MetaInit /\ SyncParked /\ SvcParked /\ HttpParked /\ LoadParked /\ MissingParked /\ OverlapParked

\* the upload arguments of a copy
MetaSpec == MetaSpecInit /\ [][MetaNext]_vars

\* sync_assets while the caller does not cancel and every remote call
\* eventually answers or fails.
FairNext ==
    \/ ListDone
    \/ ListFail
    \/ \E i \in TaskIds : Start(i)
    \/ \E i \in TaskIds : CheckDone(i)
    \/ \E i \in TaskIds : LinkDone(i)
    \/ \E i \in TaskIds : DownloadDone(i)
    \/ \E i \in TaskIds : UploadDone(i)
    \/ \E i \in TaskIds : AddDone(i)
    \/ Return
    \/ MainExit

FairSpec == Init /\ [][FairNext]_vars /\ WF_vars(FairNext)

(***************************************************************************)
(* Properties.                                                             *)
(***************************************************************************)
Outcomes == {"linked", "copied", "oversize", "error"}

Names == ServerNames(config)

\* Checksums the servers reported at the start of the run.
InitialUnion == UNION {ChecksumsOf(assets[n]) : n \in DOMAIN assets}

PerServerSum(f(_)) == SumOver([n \in Names |-> f(summary.per_server[n])], Names)

FailedTaskErrors == {k \in 1..Len(summary.errors) : summary.errors[k].kind = "Failed to copy"}

\* C1: after a dry run has returned, every server's index holds every
\* checksum that any server reported initially.
C1_UnionConvergence ==
    (phase = "returned" /\ dry_run) =>
        \A s \in Names : \A c \in InitialUnion : HasChecksum(index, s, c)

C1_Witness ==
    /\ phase = "returned"
    /\ dry_run
    /\ Len(tasks) >= 2
    /\ \E s \in Names : \E c \in InitialUnion : c \notin ChecksumsOf(assets[s])

\* C2: when sync_assets returns, the per-target copied + linked + oversized
\* counters plus the failed tasks in summary.errors add up to the number of
\* generated tasks.
C2_CounterConservation ==
    phase = "returned" =>
        PerServerSum(LAMBDA st : st.copied + st.linked + st.oversized)
            + Cardinality(FailedTaskErrors) = Len(tasks)

\* C3: when sync_assets returns (dry run or not), the per-server copied +
\* linked counters add up to summary.copied + summary.linked.
C3_CopiedLinkedAgree ==
    phase = "returned" =>
        PerServerSum(LAMBDA st : st.copied + st.linked) = summary.copied + summary.linked

\* C4: what get_progress reads during a run never has done above total.
C4_DoneWithinTotal == progress.done <= progress.total

\* C5 as stated: every task in which a remote call failed (oversize apart)
\* has its failure in summary.errors.
C5_EveryFailureRecorded ==
    phase \in {"running", "returned"} =>
        \A i \in TaskIds :
            tstate[i].failed # {} =>
                \E k \in 1..Len(summary.errors) : summary.errors[k] = FailureMessage(tasks[i])

\* C5 amended: a failure in a task other than oversize and other than
\* check_bulk_upload raising is appended to summary.errors as "Failed to
\* copy <checksum> from <source> to <target>", the run goes on (nothing is
\* raised), the permit is given back and no other task is disturbed.
C5_TaskErrorsCollected ==
    [][\A i \in TaskIds :
          ("transfer" \notin tstate[i].failed /\ "transfer" \in tstate'[i].failed) =>
              /\ summary'.errors =
                     Append(summary.errors,
                            [kind |-> "Failed to copy", checksum |-> tasks[i].checksum,
                             source |-> tasks[i].source, target |-> tasks[i].target])
              /\ tstate'[i].outcome = "error"
              /\ phase' = "running"
              /\ semValue' = semValue + 1
              /\ \A j \in TaskIds \ {i} : tstate'[j] = tstate[j]]_vars

C5_Witness ==
    /\ phase = "returned"
    /\ Len(summary.errors) = 1
    /\ \E i, j \in TaskIds :
         /\ tstate[i].outcome = "error"
         /\ tstate[j].outcome \in {"copied", "linked"}

\* C6: the tasks inside the semaphore block, over all servers together, are
\* never more than max(1, workers).
C6_BoundedInFlight == Cardinality(InFlight) <= semSize

C6_Witness ==
    /\ Cardinality(InFlight) = semSize
    /\ \E i, j \in InFlight : tasks[i].target # tasks[j].target
    /\ \E k \in TaskIds : tstate[k].pc = "pending"

\* C7: the summary is returned only when every task has one outcome and
\* has left the semaphore, and a run that has started its tasks does return.
C7_RunSettles ==
    /\ [](phase = "returned" =>
            /\ \A i \in TaskIds : tstate[i].pc = "done" /\ tstate[i].outcome \in Outcomes
            /\ semValue = semSize)
    /\ (phase = "running" ~> phase = "returned")

C7_Witness ==
    /\ phase = "returned"
    /\ Len(tasks) > semSize
    /\ \E i, j \in TaskIds : tstate[i].outcome # tstate[j].outcome

\* C8: a run that the caller cancelled still ends by returning its summary.
C8_CancelReturnsSummary ==
    (cancelled /\ phase \in {"returned", "raised"}) => phase = "returned"

\* The id an upload body carries: "id", else "assetId".
UploadedId(body) == IF body.id # "" THEN body.id ELSE body.assetId

CopyCalls(t, filename, id) ==
    << Call("check", t.target, t.checksum),
       Call("download", t.source, t.source_asset.id),
       Call("upload", t.target, filename),
       Call("add", t.target, id) >>

\* C9: a task that copies issues, in this order, the bulk check, one
\* download from the source, one upload to the target under the original
\* filename and one add-to-album with the id of the upload body; on success
\* copied goes up by one for the summary and for the target, linked does not.
C9_CopySequence ==
    /\ [](\A i \in TaskIds :
            LET t == tasks[i]
                full == CopyCalls(t, tstate[i].calls[3].arg, UploadedId(tstate[i].upload))
            IN /\ tstate[i].pc = "download" => tstate[i].calls = SubSeq(CopyCalls(t, "", ""), 1, 2)
               /\ tstate[i].pc = "upload" =>
                      /\ SubSeq(tstate[i].calls, 1, 2) = SubSeq(CopyCalls(t, "", ""), 1, 2)
                      /\ Len(tstate[i].calls) = 3
                      /\ tstate[i].calls[3].op = "upload"
                      /\ tstate[i].calls[3].server = t.target
                      /\ t.source_asset.originalFileName # "" =>
                             tstate[i].calls[3].arg = t.source_asset.originalFileName
               /\ tstate[i].pc = "add" =>
                      /\ tstate[i].calls = full
                      /\ UploadedId(tstate[i].upload) # ""
                      /\ t.source_asset.originalFileName # "" =>
                             tstate[i].calls[3].arg = t.source_asset.originalFileName)
    /\ [][\A i \in TaskIds :
            (~dry_run /\ tstate[i].outcome = "none" /\ tstate'[i].outcome = "copied") =>
                LET tgt == tasks[i].target IN
                /\ tstate[i].pc = "add"
                /\ summary'.copied = summary.copied + 1
                /\ summary'.per_server[tgt].copied = summary.per_server[tgt].copied + 1
                /\ summary'.linked = summary.linked
                /\ summary'.per_server[tgt].linked = summary.per_server[tgt].linked]_vars

C9_Witness ==
    /\ ~dry_run
    /\ phase = "returned"
    /\ \E i \in TaskIds :
         /\ tstate[i].outcome = "copied"
         /\ summary.per_server[tasks[i].target].copied >= 1

\* The id of a bulk-check entry: assetId, else existingId, else id.
ClaimedId(entry) ==
    IF entry.assetId # "" THEN entry.assetId
    ELSE IF entry.existingId # "" THEN entry.existingId
    ELSE entry.id

\* The entry has action or status reject/duplicate and a non-empty id.
MatchesEither(entry) ==
    /\ entry.isDict
    /\ entry.action \in {"reject", "duplicate"} \/ entry.status \in {"reject", "duplicate"}
    /\ ClaimedId(entry) # ""

\* The entry's action, or its status when it has no action, is
\* reject/duplicate and the entry has a non-empty id.
MatchesEffective(entry) ==
    /\ entry.isDict
    /\ (IF entry.action # "" THEN entry.action ELSE entry.status) \in {"reject", "duplicate"}
    /\ ClaimedId(entry) # ""

\* Id of the first entry of the list that matches, "" when none does.
FirstMatch(items, Matches(_)) ==
    LET hits == {k \in 1..Len(items) : Matches(items[k])} IN
    IF hits = {} THEN ""
    ELSE ClaimedId(items[CHOOSE k \in hits : \A m \in hits : k <= m])

\* The task is acting on a bulk-check body that carries a list.
ActsOnList(i) ==
    /\ tstate[i].pc \in {"link", "download"}
    /\ tstate[i].check.kind = "dict"
    /\ CandidatesOf(tstate[i].check).isList

LinkCalls(t, id) == << Call("check", t.target, t.checksum), Call("add", t.target, id) >>

\* C10 as stated: whenever the returned list has an entry whose action or
\* status is reject/duplicate with an id, the task links the first such id
\* and downloads nothing.
C10_LinksFirstEither ==
    \A i \in TaskIds :
        ActsOnList(i) =>
            LET id == FirstMatch(CandidatesOf(tstate[i].check).items, MatchesEither) IN
            id # "" => tstate[i].pc = "link" /\ tstate[i].calls = LinkCalls(tasks[i], id)

\* C10 amended: the entry that counts is the first whose action, or whose
\* status when action is absent or empty, is reject/duplicate with a
\* non-empty id; the task adds exactly that id, issues no download and no
\* upload, and is counted as linked and not as copied.
C10_LinksFirstExisting ==
    /\ [](\A i \in TaskIds :
            ActsOnList(i) =>
                LET id == FirstMatch(CandidatesOf(tstate[i].check).items, MatchesEffective) IN
                IF id # ""
                THEN tstate[i].pc = "link" /\ tstate[i].calls = LinkCalls(tasks[i], id)
                ELSE tstate[i].pc = "download")
    /\ [][\A i \in TaskIds :
            (tstate[i].outcome = "none" /\ tstate'[i].outcome = "linked") =>
                LET tgt == tasks[i].target IN
                /\ tstate[i].pc = "link"
                /\ summary'.linked = summary.linked + 1
                /\ summary'.per_server[tgt].linked = summary.per_server[tgt].linked + 1
                /\ summary'.copied = summary.copied
                /\ summary'.per_server[tgt].copied = summary.per_server[tgt].copied]_vars

C10_Witness ==
    \E i, j \in TaskIds :
        /\ phase = "running"
        /\ tstate[i].outcome = "linked"
        /\ summary.per_server[tasks[i].target].linked >= 1
        /\ tstate[j].pc = "link"
        /\ Len(CandidatesOf(tstate[j].check).items) > 1
        /\ ~MatchesEffective(CandidatesOf(tstate[j].check).items[1])

\* The target has a limit and the source asset's size is known.
KnownSize(t) ==
    /\ ServerByName(config, t.target).hasLimit
    /\ t.source_asset.sizeKnown

LimitOf(t) == ServerByName(config, t.target).size_limit_bytes

SkippedEntry(t) ==
    [checksum |-> t.checksum, filename |-> t.source_asset.originalFileName,
     sizeKnown |-> TRUE, size |-> t.source_asset.size]

\* C11 as stated: a finished task whose source asset has a known size above
\* the target's limit has an entry {checksum, filename, size} in
\* summary.oversized[target] and is counted neither as copied nor as linked.
C11_OversizeAlways ==
    phase \in {"running", "returned"} =>
        \A i \in TaskIds :
            (KnownSize(tasks[i]) /\ tasks[i].source_asset.size > LimitOf(tasks[i])
                /\ tstate[i].pc = "done") =>
                /\ tstate[i].outcome \notin {"copied", "linked"}
                /\ \E k \in 1..Len(summary.oversized[tasks[i].target]) :
                       summary.oversized[tasks[i].target][k] = SkippedEntry(tasks[i])

\* C11 amended: in a run that is not a dry run, a task whose target has a
\* limit and whose source asset has a known size above it issues no remote
\* call at all, appends {checksum, filename, size} to
\* summary.oversized[target], raises the target's oversized counter and
\* leaves copied and linked alone; a known size equal to the limit is never
\* an oversize outcome.
C11_OversizeSkipped ==
    /\ [](\A i \in TaskIds :
            (~dry_run /\ KnownSize(tasks[i])
                /\ tasks[i].source_asset.size > LimitOf(tasks[i])) =>
                /\ tstate[i].pc \in {"pending", "done", "cancelled"}
                /\ tstate[i].calls = <<>>)
    /\ [](\A i \in TaskIds :
            (~dry_run /\ KnownSize(tasks[i])
                /\ tasks[i].source_asset.size = LimitOf(tasks[i])) =>
                tstate[i].outcome # "oversize")
    /\ [][\A i \in TaskIds :
            (~dry_run /\ KnownSize(tasks[i])
                /\ tasks[i].source_asset.size > LimitOf(tasks[i])
                /\ tstate[i].pc = "pending" /\ tstate'[i].pc = "done") =>
                LET tgt == tasks[i].target IN
                /\ tstate'[i].outcome = "oversize"
                /\ summary'.oversized[tgt] = Append(summary.oversized[tgt], SkippedEntry(tasks[i]))
                /\ summary'.per_server[tgt].oversized = summary.per_server[tgt].oversized + 1
                /\ summary'.copied = summary.copied
                /\ summary'.linked = summary.linked
                /\ summary'.per_server[tgt].copied = summary.per_server[tgt].copied
                /\ summary'.per_server[tgt].linked = summary.per_server[tgt].linked]_vars

C11_Witness ==
    /\ ~dry_run
    /\ phase = "returned"
    /\ \E i, j \in TaskIds :
         /\ tstate[i].outcome = "oversize"
         /\ KnownSize(tasks[i])
         /\ Len(summary.oversized[tasks[i].target]) >= 1
         /\ KnownSize(tasks[j])
         /\ tasks[j].source_asset.size = LimitOf(tasks[j])
         /\ tstate[j].outcome \in {"copied", "linked"}

\* C12: when the link-if-present step of a task fails (check_bulk_upload
\* raises, its body is malformed, or add_assets_to_album for the existing
\* id fails), the task goes on to the download of the copy and nothing is
\* appended to summary.errors.
C12_LinkFailureFallsThrough ==
    [][\A i \in TaskIds :
          (tstate[i].pc \in {"check", "link"} /\ faults' = faults + 1
              /\ tstate'[i] # tstate[i]) =>
              /\ tstate'[i].pc = "download"
              /\ summary'.errors = summary.errors]_vars

\* The endpoints the bulk check is to try, in order.
CheckEndpoints == << Req("POST", "/api/assets/check"), Req("POST", "/api/asset/check") >>

FirstSuccess(resps) ==
    LET hits == {k \in 1..Len(resps) : resps[k].status = 200} IN
    IF hits = {} THEN 0 ELSE CHOOSE k \in hits : \A m \in hits : k <= m

\* C13: check_bulk_upload posts to /api/assets/check first and, when that
\* answers 404 or 405, to /api/asset/check, in that order and no further;
\* what it returns is the parsed body of the first successful response.
C13_CheckFallsBack ==
    (hOp = "check" /\ hPc # "idle") =>
        /\ hReqs[1] = CheckEndpoints[1]
        /\ (Len(hResps) >= 1 /\ hResps[1].status \in {404, 405}) =>
               (Len(hReqs) = 2 /\ hReqs[2] = CheckEndpoints[2])
        /\ (Len(hResps) >= 1 /\ hResps[1].status \notin {404, 405}) => Len(hReqs) = 1
        /\ hPc = "returned" =>
               hResult = [kind |-> "json", from |-> FirstSuccess(hResps)]

\* C14: when every variant of check_bulk_upload answers 404, the two
\* endpoints have been requested once each, in order, and the operation
\* raises instead of returning.
C14_CheckAllMissing ==
    (/\ hOp = "check"
     /\ hPc \in {"returned", "raised"}
     /\ Len(hResps) >= 1
     /\ Len(hResps) = Len(hReqs)
     /\ \A k \in 1..Len(hResps) : hResps[k].status = 404) =>
        (hReqs = CheckEndpoints /\ hPc = "raised")

\* The endpoint chains of download, upload and add-to-album.
ClaimedChain(op, arg) ==
    IF op = "download"
    THEN << [method |-> "GET", path |-> "/api/assets/" \o arg \o "/original"],
            [method |-> "GET", path |-> "/api/assets/download/" \o arg],
            [method |-> "GET", path |-> "/api/assets/" \o arg \o "/download"] >>
    ELSE IF op = "upload"
    THEN << [method |-> "POST", path |-> "/api/assets"],
            [method |-> "POST", path |-> "/api/assets/upload"] >>
    ELSE << [method |-> "PUT", path |-> "/api/albums/" \o arg \o "/assets"],
            [method |-> "POST", path |-> "/api/albums/" \o arg \o "/assets"] >>

MovesOn(op, status) == status = 404 \/ (op = "add" /\ status = 405)

\* C15: download, upload and add-to-album request their variants in order,
\* a later one only after the one before answered 404 (404 or 405 for
\* add-to-album); any other response ends the operation, and a final
\* response that is not 2xx is raised.
C15_AdvanceOnlyOnMissing ==
    (hOp \in {"download", "upload", "add"} /\ hPc # "idle") =>
        /\ Len(hReqs) <= Len(ClaimedChain(hOp, hArg))
        /\ \A k \in 1..Len(hReqs) : hReqs[k] = ClaimedChain(hOp, hArg)[k]
        /\ \A k \in 2..Len(hReqs) : MovesOn(hOp, hResps[k - 1].status)
        /\ Len(hResps) \in {Len(hReqs) - 1, Len(hReqs)}
        /\ hPc = "waiting" => Len(hResps) = Len(hReqs) - 1
        /\ (hPc # "waiting" /\ Len(hResps) = Len(hReqs)) =>
               (hResps[Len(hResps)].status # 200 => hPc = "raised")
        /\ hPc = "returned" => hResps[Len(hResps)].status = 200

C15_Witness ==
    /\ hOp = "add"
    /\ hPc = "returned"
    /\ Len(hReqs) = 2
    /\ hResps[1].status = 405

\* The value under size_limit_bytes is there and is not a positive integer.
LimitNotPositiveInteger(v) ==
    /\ v.kind \notin {"absent", "null"}
    /\ ~(v.kind = "int" /\ v.value > 0)

BlankName(name) == name \in {"", " "}

SameServerName(a, b) ==
    \/ a = b
    \/ {a, b} = {"A", " A"}

\* C16: load_config rejects a missing or empty servers array ("non-empty"),
\* fewer than two servers ("least two"), an entry lacking a required field
\* ("missing"), an empty or duplicate name and a size_limit_bytes that is
\* present but not a positive integer; what it accepts has at least two
\* servers with distinct non-empty names and limits absent or positive.
C16_LoadConfigValidates ==
    loaded.state # "none" =>
        LET items == raw.items
            whole(e) == e.isDict /\ e.has = RequiredFields
        IN /\ (raw.kind = "object" /\ (raw.serversKind # "list" \/ items = <<>>)) =>
                  (loaded.state = "error" /\ loaded.error = "non-empty")
           /\ (Len(items) = 1 /\ whole(items[1]) /\ ~BlankName(items[1].name)
                 /\ ~LimitNotPositiveInteger(items[1].limit)) =>
                  (loaded.state = "error" /\ loaded.error = "least two")
           /\ (Len(items) >= 1 /\ items[1].isDict /\ items[1].has # RequiredFields) =>
                  (loaded.state = "error" /\ loaded.error = "missing")
           /\ (\E k \in 1..Len(items) : ~whole(items[k])) => loaded.state = "error"
           /\ (\E k \in 1..Len(items) : whole(items[k]) /\ BlankName(items[k].name)) =>
                  loaded.state = "error"
           /\ (\E k, m \in 1..Len(items) :
                  k < m /\ whole(items[k]) /\ whole(items[m])
                        /\ SameServerName(items[k].name, items[m].name)) =>
                  loaded.state = "error"
           /\ (\E k \in 1..Len(items) :
                  whole(items[k]) /\ LimitNotPositiveInteger(items[k].limit)) =>
                  loaded.state = "error"
           /\ loaded.state = "ok" =>
                  /\ Len(loaded.servers) >= 2
                  /\ \A k, m \in 1..Len(loaded.servers) :
                        k # m => loaded.servers[k].name # loaded.servers[m].name
                  /\ \A k \in 1..Len(loaded.servers) :
                        /\ loaded.servers[k].name # ""
                        /\ loaded.servers[k].hasLimit => loaded.servers[k].size_limit_bytes > 0

\* At least two servers, names distinct and not empty.
ValidSyncConfig(cfg) ==
    /\ Len(cfg) >= 2
    /\ \A k, m \in 1..Len(cfg) : k # m => cfg[k].name # cfg[m].name
    /\ \A k \in 1..Len(cfg) : cfg[k].name # ""

\* C17: sync_assets entered with a SyncConfig of fewer than two servers, or
\* of two servers under one name, lists no album, runs no task and returns
\* no summary.
C17_EntryPointValidates ==
    (phase # "rejected" /\ ~ValidSyncConfig(config)) =>
        /\ assets = EmptyMap
        /\ phase \notin {"running", "returned"}

\* C18: main exits with 2 exactly when the configuration was rejected, with
\* 130 exactly when the user interrupted, with 1 exactly when the run
\* produced a summary with a non-empty errors list, and with 0 otherwise.
C18_ExitCodes ==
    exit_code # -1 =>
        LET withErrors == phase = "returned" /\ summary.errors # <<>> IN
        /\ exit_code = 2 <=> phase = "rejected"
        /\ exit_code = 130 <=> cancelled
        /\ exit_code = 1 <=> withErrors
        /\ exit_code = 0 <=> (phase # "rejected" /\ ~cancelled /\ ~withErrors)

\* C19: once sync_assets has returned or raised, every client it created is
\* closed.
C19_ClientsClosed ==
    phase \in {"returned", "raised"} => clients = {}

\* C20: the snapshot a caller got from get_progress reads the same, in
\* every field, whatever the running sync does afterwards.
C20_SnapshotIsolated ==
    snapshot.taken => SnapshotView(snapshot, progress) = snapshot.at_call

\* C21: a failed album listing is fatal to the run.  A run that reaches its
\* tasks has the listing of every configured server and its union counts
\* the checksums of all of them; a run that a listing failure ended raised
\* without having planned a task, so without any bulk-check, download,
\* upload or add-to-album call.
C21_ListingFailureFatal ==
    /\ phase \in {"running", "returned"} =>
          /\ DOMAIN assets = ServerNames(config)
          /\ summary.total_checksums = Cardinality(InitialUnion)
          /\ \A k \in TaskIds : tasks[k].checksum \in InitialUnion
    /\ (phase = "raised" /\ ~cancelled) =>
          /\ tasks = <<>>
          /\ tstate = <<>>
          /\ index = EmptyMap
          /\ summary = NoSummary

\* A later server's listing failed after an earlier server had answered.
C21_Witness ==
    /\ phase = "raised"
    /\ ~cancelled
    /\ assets # EmptyMap
    /\ DOMAIN assets # ServerNames(config)

\* C22: index_assets maps each server to its non-empty checksums, each with
\* the first asset in listing order that carries it, and counts the assets
\* without a checksum; the run starts from exactly this index and never
\* replaces what a server reported itself.
Checksumless(album) == Cardinality({k \in 1..Len(album) : album[k].checksum = ""})

NoTaskFinished == \A k \in TaskIds : tstate[k].pc # "done"

C22_IndexFirstSeen ==
    phase \in {"running", "returned"} =>
        LET ix == index_assets(assets) IN
        /\ DOMAIN ix.index = DOMAIN assets
        /\ DOMAIN ix.checksumless = DOMAIN assets
        /\ \A n \in DOMAIN assets :
              /\ DOMAIN ix.index[n] = ChecksumsOf(assets[n])
              /\ \A c \in ChecksumsOf(assets[n]) :
                    /\ ix.index[n][c] = FirstWith(assets[n], c)
                    /\ index[n][c] = FirstWith(assets[n], c)
              /\ ix.checksumless[n] = Checksumless(assets[n])
              /\ summary.checksumless_assets[n] = Checksumless(assets[n])
        /\ NoTaskFinished => index = ix.index

\* A server listed two assets with one checksum, and a server listed an
\* asset without a checksum.
C22_Witness ==
    /\ phase = "running"
    /\ \E n \in DOMAIN assets : \E j, k \in 1..Len(assets[n]) :
          j < k /\ assets[n][j].checksum # "" /\ assets[n][j].checksum = assets[n][k].checksum
    /\ \E n \in DOMAIN assets : Checksumless(assets[n]) > 0

\* C23: for each server compute_missing lists exactly the checksums that
\* some server reported and this server did not, each once; a server that
\* holds the whole union gets the empty list.
ListedChecksums == UNION {ChecksumsOf(mAssets[s]) : s \in DOMAIN mAssets}

Members(seq) == {seq[i] : i \in 1..Len(seq)}

C23_MissingIsComplement ==
    \A k \in 1..Len(mCalls) :
        /\ DOMAIN mCalls[k] = DOMAIN mAssets
        /\ \A n \in DOMAIN mAssets :
              LET m == mCalls[k][n]
                  lacking == ListedChecksums \ ChecksumsOf(mAssets[n])
              IN /\ Members(m) = lacking
                 /\ Len(m) = Cardinality(lacking)
                 /\ ChecksumsOf(mAssets[n]) = ListedChecksums => m = <<>>

\* A call returned two checksums for one server and the empty list for a
\* server that holds the whole union.
C23_Witness ==
    /\ Len(mCalls) >= 1
    /\ \E n \in DOMAIN mAssets : Len(mCalls[1][n]) = 2
    /\ \E n \in DOMAIN mAssets :
          ChecksumsOf(mAssets[n]) = ListedChecksums /\ mCalls[1][n] = <<>>

\* C24: the task list is, for each checksum of the union in sorted order
\* and with the first server in declaration order that holds it as source,
\* one task per server in declaration order that lacks it: no task targets
\* its source or a holder, no (checksum, target) pair repeats, a checksum
\* has one source, and the list is a function of the listings.
PlannedIndex == index_assets(assets).index

ServerPos(n) == CHOOSE i \in 1..Len(config) : config[i].name = n

ChecksumPos(c) == CHOOSE i \in 1..Len(ChecksumOrder) : ChecksumOrder[i] = c

Holds(n, c) == c \in ChecksumsOf(assets[n])

C24_TaskList ==
    phase \in {"running", "returned"} =>
        /\ \A k \in TaskIds :
              LET t == tasks[k] IN
              /\ t.checksum \in InitialUnion
              /\ Holds(t.source, t.checksum)
              /\ \A i \in 1..Len(config) :
                    Holds(config[i].name, t.checksum) => ServerPos(t.source) <= i
              /\ t.source_asset = FirstWith(assets[t.source], t.checksum)
              /\ t.target \in Names
              /\ t.target # t.source
              /\ ~Holds(t.target, t.checksum)
        /\ \A c \in InitialUnion : \A n \in Names :
              ~Holds(n, c) => \E k \in TaskIds : tasks[k].checksum = c /\ tasks[k].target = n
        /\ \A j, k \in TaskIds :
              /\ (tasks[j].checksum = tasks[k].checksum /\ tasks[j].target = tasks[k].target)
                    => j = k
              /\ tasks[j].checksum = tasks[k].checksum => tasks[j].source = tasks[k].source
              /\ j < k =>
                    \/ ChecksumPos(tasks[j].checksum) < ChecksumPos(tasks[k].checksum)
                    \/ /\ tasks[j].checksum = tasks[k].checksum
                       /\ ServerPos(tasks[j].target) < ServerPos(tasks[k].target)
        /\ tasks = BuildTasks(config, PlannedIndex, Sorted(UnionOf(PlannedIndex))).tasks

\* Tasks for two checksums were planned, one of them held by two servers
\* and lacked by a third.
C24_Witness ==
    /\ phase = "running"
    /\ \E j, k \in TaskIds : tasks[j].checksum # tasks[k].checksum
    /\ \E k \in TaskIds : \E n \in Names :
          n # tasks[k].source /\ Holds(n, tasks[k].checksum)

\* C25: the lists compute_missing returns are in a deterministic order --
\* two calls on equal indexes return the same checksums in the same order
\* for every server.
C25_MissingOrderDeterministic ==
    \A j, k \in 1..Len(mCalls) : mCalls[j] = mCalls[k]

\* C26: at every point of a run and for every server t, copied + linked +
\* oversized of t stays within missing_before, remaining of t equals
\* missing_before minus (copied + linked + oversized + failed tasks with
\* target t), and remaining is never negative.
FailedFor(n) == Cardinality({k \in FailedTaskErrors : summary.errors[k].target = n})

C26_RemainingAccounts ==
    phase \in {"running", "returned"} =>
        \A n \in Names :
            LET st == summary.per_server[n] IN
            /\ st.copied + st.linked + st.oversized <= st.missing_before
            /\ st.remaining = st.missing_before
                                 - (st.copied + st.linked + st.oversized + FailedFor(n))
            /\ st.remaining >= 0

\* C27: an oversize outcome is recorded exactly once per (checksum, target):
\* no two entries of summary.oversized[target] carry the same checksum, the
\* entries are those of the tasks that ended oversize, and at every point
\* per_server[target].oversized is the number of entries.
OversizeTasks(n) == {k \in TaskIds : tasks[k].target = n /\ tstate[k].outcome = "oversize"}

C27_OversizeOnce ==
    phase \in {"running", "returned"} =>
        \A n \in Names :
            LET entries == summary.oversized[n] IN
            /\ \A i, j \in 1..Len(entries) :
                  entries[i].checksum = entries[j].checksum => i = j
            /\ summary.per_server[n].oversized = Len(entries)
            /\ Len(entries) = Cardinality(OversizeTasks(n))
            /\ \A k \in OversizeTasks(n) :
                  \E i \in 1..Len(entries) : entries[i] = OversizeEntry(tasks[k])

\* Two tasks of the run ended oversize.
C27_Witness ==
    /\ phase = "returned"
    /\ \E j, k \in TaskIds :
          /\ j # k
          /\ tstate[j].outcome = "oversize"
          /\ tstate[k].outcome = "oversize"

\* C28: in a dry run no task issues a bulk-check, download, upload or
\* add-to-album call and no size gate is applied; every task that has run is
\* counted as copied and registered in the index of its target, so that on
\* return summary.copied is the number of generated tasks.
DoneTasks == {k \in TaskIds : tstate[k].pc = "done"}

C29_RemainingTracksDone ==
    /\ progress # NoProgress => progress.remaining = progress.total - progress.done
    /\ (sPc = "ended" /\ ~crashed) =>
          /\ progress.done = progress.total
          /\ progress.remaining = 0

\* C30: once the run has stored the record with status "running", the
\* status is back to "idle" when the run ends, normally or by an exception:
\* a run that has ended never leaves "running" behind, the step that ends
\* the run changes nothing but the status, and the run does end.
C30_StatusBackToIdle ==
    /\ [](sPc = "ended" => progress.status = "idle")
    /\ [][(progress.status = "running" /\ sPc' = "ended")
            => progress' = [progress EXCEPT !.status = "idle"]]_vars
    /\ (progress.status = "running") ~> (sPc = "ended" /\ progress.status = "idle")

\* A run crashed in a copy after it had counted a task.
C30_Witness ==
    /\ sPc = "ended"
    /\ crashed
    /\ progress.status = "idle"
    /\ progress.done > 0
    /\ progress.done < progress.total

\* C31: with a limit on the target and an unknown source size, the task
\* downloads and then either ends oversize without an upload or goes on to
\* the upload; it ends as an error at that point only if the download call
\* itself failed.  With a known size the downloaded length is not looked at.
C31_GateBDecides ==
    [][\A i \in TaskIds :
         (phase = "running" /\ tstate[i].pc = "download" /\ tstate'[i].pc # "download"
            /\ phase' = "running") =>
             /\ GateBReached(tasks[i]) =>
                   \/ tstate'[i].pc = "upload"
                   \/ /\ tstate'[i].outcome = "oversize"
                      /\ summary'.oversized[tasks[i].target]
                           = Append(summary.oversized[tasks[i].target], OversizeEntry(tasks[i]))
                   \/ tstate'[i].outcome = "error" /\ faults' = faults + 1
             /\ ~GateBReached(tasks[i]) =>
                   \/ tstate'[i].pc = "upload"
                   \/ tstate'[i].outcome = "error" /\ faults' = faults + 1]_vars

\* C32: an upload body with neither a non-empty id nor a non-empty assetId
\* ends the task as an error recorded in summary.errors: no add-to-album
\* call is issued for it, the task counts neither as copied nor as linked,
\* and the index of the target does not gain the checksum.
C32_UploadWithoutId ==
    /\ [](\A i \in TaskIds :
            /\ tstate[i].pc = "add" =>
                  /\ tstate[i].upload.id # "" \/ tstate[i].upload.assetId # ""
                  /\ tstate[i].calls[4].arg \in {tstate[i].upload.id, tstate[i].upload.assetId}
            /\ "noid" \in tstate[i].failed => tstate[i].outcome = "error")
    /\ [][\A i \in TaskIds :
            ("noid" \notin tstate[i].failed /\ "noid" \in tstate'[i].failed) =>
                /\ tstate[i].pc = "upload"
                /\ tstate'[i].pc = "done"
                /\ summary'.errors = Append(summary.errors, FailureMessage(tasks[i]))
                /\ summary'.copied = summary.copied
                /\ summary'.linked = summary.linked
                /\ summary'.per_server = summary.per_server
                /\ index' = index]_vars

\* A run returned after an upload was answered without an id.
C32_Witness ==
    /\ phase = "returned"
    /\ \E i \in TaskIds :
          /\ "noid" \in tstate[i].failed
          /\ ~HasChecksum(index, tasks[i].target, tasks[i].checksum)

\* C33: every client created during run_sync_group -- the listing client of
\* each instance and the two clients of each copy -- is closed when the run
\* has ended, whichever way it ended.
C33_SvcClientsClosed == sPc = "ended" => sClients = {}

\* C34: a failure while copying one asset is not fatal to run_sync_group:
\* the step that ends a copy never ends the run, the run goes on with the
\* remaining tasks, and done advances for the failed task.
C34_CopyFailureNotFatal ==
    [][sPc = "copy" =>
          /\ sPc' \in {"copy", "bump"}
          /\ ~crashed'
          /\ sPc' = "bump" => progress'.done = progress.done + 1]_vars

\* C35: outside a dry run the index of a server gains a checksum only in the
\* step in which the task for that (checksum, server) ends linked or copied,
\* and then holds the task's source asset; a task ending oversize or as an
\* error leaves the index as it is, an entry once present is neither removed
\* nor replaced, and the planned tasks keep their sources.
C35_IndexFrame ==
    [][(~dry_run /\ phase = "running" /\ phase' \in {"running", "returned"}) =>
          /\ tasks' = tasks
          /\ DOMAIN index' = DOMAIN index
          /\ \A n \in DOMAIN index :
                /\ \A c \in DOMAIN index[n] :
                      c \in DOMAIN index'[n] /\ index'[n][c] = index[n][c]
                /\ \A c \in DOMAIN index'[n] \ DOMAIN index[n] :
                      \E i \in TaskIds :
                          /\ tasks[i].target = n
                          /\ tasks[i].checksum = c
                          /\ tstate[i].outcome = "none"
                          /\ tstate'[i].outcome \in {"linked", "copied"}
                          /\ index'[n][c] = tasks[i].source_asset
          /\ \A i \in TaskIds :
                (tstate[i].outcome = "none" /\ tstate'[i].outcome \in {"oversize", "error"})
                    => index' = index]_vars

\* A run returned in which one task was linked or copied into the index
\* and another ended as an error or oversize.
C35_Witness ==
    /\ ~dry_run
    /\ phase = "returned"
    /\ \E i, j \in TaskIds :
          /\ tstate[i].outcome \in {"linked", "copied"}
          /\ index[tasks[i].target][tasks[i].checksum] = tasks[i].source_asset
          /\ tstate[j].outcome \in {"oversize", "error"}
          /\ ~HasChecksum(index, tasks[j].target, tasks[j].checksum)

\* C36: done and per_instance[target].done move together, so what the holder
\* of a get_progress snapshot reads satisfies done = sum of the per-instance
\* done counters, at the call and at any later time.
DoneSum(p) == SumOver([id \in DOMAIN p.per_instance |-> p.per_instance[id].done],
                      DOMAIN p.per_instance)

C36_SnapshotDoneConsistent ==
    /\ progress.done = DoneSum(progress)
    /\ snapshot.taken =>
          LET view == SnapshotView(snapshot, progress) IN view.done = DoneSum(view)

\* C37: the upload of a copy carries deviceAssetId = the asset's
\* deviceAssetId, else its original filename, else "<source>-<checksum>";
\* deviceId = the asset's deviceId, else "ImmichSync-<source>";
\* fileCreatedAt = the asset's value, else ""; fileModifiedAt = the asset's
\* value, else fileCreatedAt; and the filename is the original filename,
\* else "asset_<checksum>".
C37_UploadMetadata ==
    uUpload.prepared =>
        /\ uUpload.metadata.deviceAssetId =
              (IF uAsset.deviceAssetId # "" THEN uAsset.deviceAssetId
               ELSE IF uAsset.originalFileName # "" THEN uAsset.originalFileName
               ELSE uSource \o "-" \o uChecksum)
        /\ uUpload.metadata.deviceId =
              (IF uAsset.deviceId # "" THEN uAsset.deviceId ELSE "ImmichSync-" \o uSource)
        /\ uUpload.metadata.fileCreatedAt = uAsset.fileCreatedAt
        /\ uUpload.metadata.fileModifiedAt =
              (IF uAsset.fileModifiedAt # "" THEN uAsset.fileModifiedAt
               ELSE uAsset.fileCreatedAt)
        /\ uUpload.filename =
              (IF uAsset.originalFileName # "" THEN uAsset.originalFileName
               ELSE "asset_" \o uChecksum)

\* A run of run_sync_group is in its loops: it has stored its progress
\* record and has not reached its finally block.
InLoops(pc) == pc \in {"loop", "copy", "bump"}

\* C38: when two runs of run_sync_group for one group overlap, get_progress
\* reports status "running" for as long as at least one of the two is still
\* running, and the done it reports never exceeds the total it reports.
C38_OverlapProgress ==
    LET reported == get_progress(progress).at_call IN
    /\ (InLoops(sPc) \/ InLoops(oPc)) => reported.status = "running"
    /\ reported.done <= reported.total

\* C39: in sync_assets source selection succeeds for every checksum of the
\* union, so no "No source available" error is ever recorded, and the
\* number of planned tasks is the sum over the servers of
\* per_server[s].missing_before: one task per missing (checksum, server)
\* pair.
C39_EveryChecksumHasSource ==
    phase \in {"running", "returned"} =>
        /\ \A c \in InitialUnion : _select_source(config, PlannedIndex, c).found
        /\ \A k \in 1..Len(summary.errors) :
              summary.errors[k].kind # "No source available"
        /\ Len(tasks) = PerServerSum(LAMBDA st : st.missing_before)
        /\ \A n \in Names :
              summary.per_server[n].missing_before =
                  Cardinality({k \in TaskIds : tasks[k].target = n})

\* Tasks were planned for two checksums and for two targets, one server
\* lacking both checksums.
C39_Witness ==
    /\ phase = "running"
    /\ \E j, k \in TaskIds :
          /\ tasks[j].checksum # tasks[k].checksum
          /\ tasks[j].target = tasks[k].target
    /\ \E j, k \in TaskIds : tasks[j].target # tasks[k].target
    /\ \E n \in Names : summary.per_server[n].missing_before = 2

====
